---- MODULE Spec2Model ----
(***************************************************************************)
(* The join / fit / predict / signal pipeline of model-game-totals.        *)
(*                                                                         *)
(* Two implementations of the pipeline are modelled side by side:          *)
(*   "utils"    scripts/04_analysis_utils.py                               *)
(*              build_training_data -> fit_total_model -> project_week     *)
(*   "nflfastr" scripts/fetch_nflfastr_data.py                             *)
(*              build_training_data -> train_model -> project_games        *)
(*                                                                         *)
(* Numbers are fixed point: every numeric cell is an integer number of     *)
(* thousandths (0.10 EPA is 100, 45.5 points is 45500).  A data frame is a *)
(* sequence of rows, a row is a function from column name to cell.         *)
(***************************************************************************)
EXTENDS Integers, Sequences, FiniteSets, TLC

VARIABLES
    variant,        \* which implementation runs: "utils" or "nflfastr"
    pc,             \* position of the run: start, built, fitted, projected, failed
    err,            \* the exception that ended the run, "none" otherwise
    team_epa,       \* per-team EPA table (sequence of records)
    team_scoring,   \* per-team points table (sequence of records)
    games,          \* completed games used for training
    upcoming,       \* upcoming_games_df of project_week (home_team, away_team)
    vegas_lines,    \* lines table / PLAYOFF_MATCHUPS (home_team, away_team, vegas_total)
    fit_columns,    \* feature_columns argument of fit_total_model ("None" = omitted)
    proj_columns,   \* feature_columns argument of project_week ("None" = omitted)
    edge_threshold, \* edge_threshold argument of project_week
    train_df,       \* the training frame returned by build_training_data
    model,          \* the fitted LinearRegression, NoModel before the fit
    metrics,        \* the metrics dict returned with the model
    proj_df,        \* the feature rows built at projection time
    projections,    \* the projection records returned
    targets,        \* the y vector handed to LinearRegression.fit (thousandths)
    files,          \* public/data and logs: file name -> [exists, data]
    io_log,         \* files opened and outside calls made: [script, op, target]
    script_pc,      \* position of a stand-alone script: idle, done, failed
    script_err,     \* the exception that ended the script, "none" otherwise
    features_list,  \* the feature rows a stand-alone script predicts from
    predictions,    \* predictions of the stand-alone scripts
    script_model,   \* the estimator a stand-alone script fitted, NoModel before
    pbp_seasons,    \* the seasons of the play-by-play frame a script loaded
    loaded_metrics, \* the metrics dict load_model returned
    web,            \* what the outside sources answer: [schedule, answers]
    fetched,        \* what a multi-source fetch returned
    summary,        \* the dict calculate_summary_stats returned
    signals         \* the signal each script variant gave for one prediction

vars == << variant, pc, err, team_epa, team_scoring, games, upcoming, vegas_lines,
           fit_columns, proj_columns, edge_threshold, train_df, model, metrics,
           proj_df, projections, targets, files, io_log, script_pc, script_err,
           features_list, predictions, script_model, pbp_seasons, loaded_metrics,
           web, fetched, summary, signals >>

\* the state of the lines fetchers, of the summary and of the signal variants
report_vars == << web, fetched, summary, signals >>

\* the state of the stand-alone scripts and of the files they share
script_vars ==
    << files, io_log, script_pc, script_err, features_list, predictions, script_model,
       pbp_seasons, loaded_metrics >>

\* the state of the two library pipelines
pipeline_vars == << pc, err, train_df, model, metrics, proj_df, projections >>

inputs == << variant, team_epa, team_scoring, games, upcoming, vegas_lines,
             fit_columns, proj_columns, edge_threshold >>

-----------------------------------------------------------------------------
(* Bounds of the explored inputs.                                          *)
MaxTeamRows == 3
MaxGames    == 2
MaxMatchups == 2

-----------------------------------------------------------------------------
(* Missing values.  pandas fills the right-hand columns of a left merge    *)
(* with NaN when no row matches; NaN propagates through arithmetic and     *)
(* every ordered comparison with it is false.                              *)
NaN == -1000000

IsNaN(x) == x = NaN

Sub(a, b) == IF IsNaN(a) \/ IsNaN(b) THEN NaN ELSE a - b

Add(a, b) == IF IsNaN(a) \/ IsNaN(b) THEN NaN ELSE a + b

Mul(a, b) == IF IsNaN(a) \/ IsNaN(b) THEN NaN ELSE a * b

Gt(a, b) == ~IsNaN(a) /\ ~IsNaN(b) /\ a > b

Lt(a, b) == ~IsNaN(a) /\ ~IsNaN(b) /\ a < b

-----------------------------------------------------------------------------
(* Sequence helpers.                                                       *)
RangeOf(s) == { s[i] : i \in 1..Len(s) }

RECURSIVE FlattenSeq(_)
FlattenSeq(ss) ==
    IF Len(ss) = 0 THEN << >> ELSE Head(ss) \o FlattenSeq(Tail(ss))

\* the sequences without repetition over S of length lo..hi
InjSeqs(S, lo, hi) ==
    { s \in UNION { [1..n -> S] : n \in lo..hi } :
        \A i, j \in 1..Len(s) : i # j => s[i] # s[j] }

-----------------------------------------------------------------------------
(* pandas.DataFrame.merge(how="left", left_on=key, right_on="team")         *)
(* followed by drop(columns=["team"]): every left row is kept, in order; it *)
(* is paired with every right row whose team equals the key, in the right  *)
(* table's order, and with an all-NaN right row when no right row matches. *)
DropTeam(r) == [ c \in (DOMAIN r) \ { "team" } |-> r[c] ]

MergeLeft(df, key, right, missing) ==
    FlattenSeq([ i \in 1..Len(df) |->
        LET m == SelectSeq(right, LAMBDA r : r.team = df[i][key])
        IN  IF Len(m) = 0
            THEN << df[i] @@ DropTeam(missing) >>
            ELSE [ j \in 1..Len(m) |-> df[i] @@ DropTeam(m[j]) ] ])

\* the right-hand side of a left merge that found no team_epa row
MissingEpa ==
    [ team |-> "?", off_epa_per_play |-> NaN, def_epa_per_play |-> NaN,
      off_pass_epa |-> NaN, off_rush_epa |-> NaN,
      def_pass_epa |-> NaN, def_rush_epa |-> NaN ]

\* the right-hand side of a left merge that found no team points row
MissingScoring ==
    [ team |-> "?", ppg |-> NaN, home_ppg |-> NaN, away_ppg |-> NaN,
      plays_per_game |-> NaN, points_per_play |-> NaN ]

\* team_epa.rename(columns={...}) of the home and of the away join
HomeEpa(r) ==
    [ team |-> r.team,
      home_off_epa      |-> r.off_epa_per_play,
      home_off_pass_epa |-> r.off_pass_epa,
      home_off_rush_epa |-> r.off_rush_epa,
      home_def_epa      |-> r.def_epa_per_play,
      home_def_pass_epa |-> r.def_pass_epa,
      home_def_rush_epa |-> r.def_rush_epa ]

AwayEpa(r) ==
    [ team |-> r.team,
      away_off_epa      |-> r.off_epa_per_play,
      away_off_pass_epa |-> r.off_pass_epa,
      away_off_rush_epa |-> r.off_rush_epa,
      away_def_epa      |-> r.def_epa_per_play,
      away_def_pass_epa |-> r.def_pass_epa,
      away_def_rush_epa |-> r.def_rush_epa ]

\* team_points_df.rename(columns={...}) of 04_analysis_utils.  The other
\* columns of the points table ride along under pandas' _x/_y suffixes and
\* are never read; the rows of the model do not carry them.
UtilsHomePoints(r) ==
    [ team |-> r.team,
      home_points_per_play |-> r.points_per_play,
      home_plays_per_game  |-> r.plays_per_game ]

UtilsAwayPoints(r) ==
    [ team |-> r.team,
      away_points_per_play |-> r.points_per_play,
      away_plays_per_game  |-> r.plays_per_game ]

\* team_scoring.rename(columns={...}) of fetch_nflfastr_data
NflHomeScoring(r) ==
    [ team |-> r.team,
      home_ppg             |-> r.ppg,
      home_ppg_at_home     |-> r.home_ppg,
      home_plays_per_game  |-> r.plays_per_game,
      home_points_per_play |-> r.points_per_play ]

NflAwayScoring(r) ==
    [ team |-> r.team,
      away_ppg             |-> r.ppg,
      away_ppg_on_road     |-> r.away_ppg,
      away_plays_per_game  |-> r.plays_per_game,
      away_points_per_play |-> r.points_per_play ]

\* DataFrame.dropna(): a row is dropped when any of its cells is missing
\* (the team-name columns are strings and are always present here)
StringColumns == { "home_team", "away_team" }

HasNaN(row) == \E c \in (DOMAIN row) \ StringColumns : IsNaN(row[c])

DropNa(df) == SelectSeq(df, LAMBDA row : ~HasNaN(row))

\* DataFrame.sort_values(["week", "game_id"]): a stable sort
RowBefore(a, b) ==
    \/ a.week < b.week
    \/ a.week = b.week /\ a.game_id < b.game_id

RECURSIVE InsertRow(_, _)
InsertRow(row, sorted) ==
    IF Len(sorted) = 0 THEN << row >>
    ELSE IF RowBefore(row, Head(sorted))
         THEN << row >> \o sorted
         ELSE << Head(sorted) >> \o InsertRow(row, Tail(sorted))

RECURSIVE SortWeekGame(_)
SortWeekGame(df) ==
    IF Len(df) = 0 THEN << >>
    ELSE InsertRow(df[Len(df)], SortWeekGame(SubSeq(df, 1, Len(df) - 1)))

-----------------------------------------------------------------------------
(* scripts/04_analysis_utils.py                                            *)

DEFAULT_FEATURES ==
    << "home_off_epa", "home_def_epa", "home_off_pass_epa", "home_off_rush_epa",
       "away_off_epa", "away_def_epa", "away_off_pass_epa", "away_off_rush_epa",
       "home_points_per_play", "away_points_per_play",
       "home_plays_per_game", "away_plays_per_game",
       "off_epa_diff", "def_epa_diff",
       "home_matchup_edge", "away_matchup_edge" >>

\* build_training_data: the four joins
UtilsTrainJoin(g, epa, pts) ==
    LET j1 == MergeLeft(g, "home_team",
                        [ k \in 1..Len(epa) |-> HomeEpa(epa[k]) ], HomeEpa(MissingEpa))
        j2 == MergeLeft(j1, "away_team",
                        [ k \in 1..Len(epa) |-> AwayEpa(epa[k]) ], AwayEpa(MissingEpa))
        j3 == MergeLeft(j2, "home_team",
                        [ k \in 1..Len(pts) |-> UtilsHomePoints(pts[k]) ], UtilsHomePoints(MissingScoring))
    IN  MergeLeft(j3, "away_team",
                  [ k \in 1..Len(pts) |-> UtilsAwayPoints(pts[k]) ], UtilsAwayPoints(MissingScoring))

\* build_training_data: the derived columns of one row
UtilsTrainDerived(row) ==
    row @@ [ total_points      |-> Add(row.home_score, row.away_score),
             off_epa_diff      |-> Sub(row.home_off_epa, row.away_off_epa),
             def_epa_diff      |-> Sub(row.home_def_epa, row.away_def_epa),
             ppp_diff          |-> Sub(row.home_points_per_play, row.away_points_per_play),
             home_matchup_edge |-> Sub(row.home_off_epa, row.away_def_epa),
             away_matchup_edge |-> Sub(row.away_off_epa, row.home_def_epa) ]

\* build_training_data(data_dir, season)
UtilsBuildTrainingData(g, epa, pts) ==
    LET joined == UtilsTrainJoin(g, epa, pts)
    IN  SortWeekGame([ i \in 1..Len(joined) |-> UtilsTrainDerived(joined[i]) ])


\* an omitted feature_columns argument (None) and a given one
NoneArg == [ given |-> FALSE, cols |-> << >> ]

Given(cols) == [ given |-> TRUE, cols |-> cols ]

\* "if feature_columns is None: feature_columns = DEFAULT_FEATURES"
ColumnsOrDefault(arg) == IF arg.given THEN arg.cols ELSE DEFAULT_FEATURES

\* df[cols]: the cells of the named columns, in the order named
SelectColumns(df, cols) ==
    [ i \in 1..Len(df) |-> [ k \in 1..Len(cols) |-> df[i][cols[k]] ] ]

\* any missing value in a matrix / a column
MatrixHasNaN(X) == \E i \in 1..Len(X) : \E k \in 1..Len(X[i]) : IsNaN(X[i][k])

RECURSIVE SumSeq(_)
SumSeq(s) == IF Len(s) = 0 THEN 0 ELSE Add(Head(s), SumSeq(Tail(s)))

\* LinearRegression.predict on one row: X @ coef_ + intercept_, by position
PredictRow(m, x) ==
    Add(m.intercept, SumSeq([ k \in 1..Len(x) |-> Mul(m.coef[k], x[k]) ]))

NoModel == [ fitted |-> FALSE ]

\* The least-squares solver is scikit-learn's, not this repository's: a fit
\* yields some weight per fitted column and some intercept.  The outcomes
\* explored: the weights of the specification's scenario, and weights that
\* differ from column to column.
LstsqOutcomes ==
    { [ weight |-> [ c \in {"home_matchup_edge"} |-> 50 ],
        intercept |-> 45000, r2_score |-> 1000, mae |-> 0 ],
      [ weight |-> [ c \in {"home_off_epa", "away_off_epa", "home_matchup_edge"} |->
                       CASE c = "home_off_epa" -> 10
                         [] c = "away_off_epa" -> 20
                         [] OTHER -> 50 ],
        intercept |-> 45040, r2_score |-> 640, mae |-> 3100 ] }

WeightOf(sol, c) == IF c \in DOMAIN sol.weight THEN sol.weight[c] ELSE 0

\* the estimator after model.fit(X, y), X holding the columns cols in order
FittedOn(cols, sol) ==
    [ fitted |-> TRUE,
      coef |-> [ k \in 1..Len(cols) |-> WeightOf(sol, cols[k]) ],
      intercept |-> sol.intercept,
      feature_names_in |-> cols ]

\* the columns of the frame build_training_data returns
UtilsTrainColumns ==
    DOMAIN UtilsBuildTrainingData(
        << [ game_id |-> 0, week |-> 0, home_team |-> "?", away_team |-> "?",
             home_score |-> 0, away_score |-> 0 ] >>, << >>, << >>)[1]

\* fit_total_model(training_df, feature_columns): the exception it raises
\* ("none" when it returns)
FitTotalModelError(df, arg) ==
    LET cols == ColumnsOrDefault(arg)
    IN  IF ~(RangeOf(cols) \subseteq UtilsTrainColumns) THEN "KeyError"
        ELSE IF Len(df) = 0 THEN "ValueError"
        ELSE IF MatrixHasNaN(SelectColumns(df, cols)) THEN "ValueError"
        ELSE IF \E i \in 1..Len(df) : IsNaN(df[i].total_points) THEN "ValueError"
        ELSE "none"

\* get_signal with the comparisons made inclusive (the off-by-one at the threshold)
get_signal_inclusive(diff, threshold) ==
    IF ~IsNaN(diff) /\ diff >= threshold THEN "OVER"
    ELSE IF ~IsNaN(diff) /\ diff <= 0 - threshold THEN "UNDER"
    ELSE "NO EDGE"

\* get_signal(diff) inside project_week
get_signal(diff, threshold) ==
    IF Gt(diff, threshold) THEN "OVER"
    ELSE IF Lt(diff, 0 - threshold) THEN "UNDER"
    ELSE "NO EDGE"

\* project_week: upcoming games merged with the lines on (home_team, away_team)
GamesWithLines(up, lines) ==
    FlattenSeq([ i \in 1..Len(up) |->
        LET m == SelectSeq(lines, LAMBDA l : l.home_team = up[i].home_team
                                             /\ l.away_team = up[i].away_team)
        IN  IF Len(m) = 0
            THEN << up[i] @@ [ vegas_total |-> NaN ] >>
            ELSE [ j \in 1..Len(m) |-> up[i] @@ [ vegas_total |-> m[j].vegas_total ] ] ])

\* project_week: the four joins
UtilsProjectJoin(g, epa, pts) ==
    LET j1 == MergeLeft(g, "home_team",
                        [ k \in 1..Len(epa) |-> HomeEpa(epa[k]) ], HomeEpa(MissingEpa))
        j2 == MergeLeft(j1, "away_team",
                        [ k \in 1..Len(epa) |-> AwayEpa(epa[k]) ], AwayEpa(MissingEpa))
        j3 == MergeLeft(j2, "home_team",
                        [ k \in 1..Len(pts) |-> UtilsHomePoints(pts[k]) ], UtilsHomePoints(MissingScoring))
    IN  MergeLeft(j3, "away_team",
                  [ k \in 1..Len(pts) |-> UtilsAwayPoints(pts[k]) ], UtilsAwayPoints(MissingScoring))

\* project_week: the derived columns of one row
UtilsProjectDerived(row) ==
    row @@ [ off_epa_diff      |-> Sub(row.home_off_epa, row.away_off_epa),
             def_epa_diff      |-> Sub(row.home_def_epa, row.away_def_epa),
             ppp_diff          |-> Sub(row.home_points_per_play, row.away_points_per_play),
             home_matchup_edge |-> Sub(row.home_off_epa, row.away_def_epa),
             away_matchup_edge |-> Sub(row.away_off_epa, row.home_def_epa) ]

\* project_week: the frame "result" before the prediction
UtilsProjectFeatures(up, lines, epa, pts) ==
    LET joined == UtilsProjectJoin(GamesWithLines(up, lines), epa, pts)
    IN  [ i \in 1..Len(joined) |-> UtilsProjectDerived(joined[i]) ]

\* the columns of that frame
UtilsProjectColumns ==
    DOMAIN UtilsProjectFeatures(
        << [ home_team |-> "?", away_team |-> "?" ] >>, << >>, << >>, << >>)[1]

\* LinearRegression.predict(X): input validation.  checks_names is whether the
\* installed scikit-learn compares the column names of X with the names seen
\* at fit time (releases differ; the repository pins none).
PredictError(m, X, names, checks_names) ==
    IF Len(X) = 0 THEN "ValueError"
    ELSE IF MatrixHasNaN(X) THEN "ValueError"
    ELSE IF Len(names) # Len(m.coef) THEN "ValueError"
    ELSE IF checks_names /\ names # m.feature_names_in THEN "ValueError"
    ELSE "none"

\* project_week: one record of the returned frame
UtilsProjectionRecord(m, row, cols, threshold) ==
    LET model_total == PredictRow(m, [ k \in 1..Len(cols) |-> row[cols[k]] ])
        difference  == Sub(model_total, row.vegas_total)
    IN  [ home_team   |-> row.home_team,
          away_team   |-> row.away_team,
          model_total |-> model_total,
          vegas_total |-> row.vegas_total,
          difference  |-> difference,
          signal      |-> get_signal(difference, threshold) ]


\* save_model(model, metrics, path): the dict pickled, {"model": model,
\* **metrics}; a key of metrics replaces an earlier key of the same name
save_model(m, met) ==
    [ k \in { "model" } \cup DOMAIN met |-> IF k \in DOMAIN met THEN met[k] ELSE m ]

\* load_model(path): data.pop("model") and what is left of the dict
load_model(data) ==
    [ model   |-> data["model"],
      metrics |-> [ k \in (DOMAIN data) \ { "model" } |-> data[k] ] ]

-----------------------------------------------------------------------------
(* scripts/fetch_nflfastr_data.py                                          *)

\* normalize_team_abbr
normalize_team_abbr(abbr) ==
    CASE abbr = "LAR" -> "LA"
      [] abbr = "LAC" -> "SD"
      [] OTHER -> abbr

\* denormalize_team_abbr with the Chargers' entry missing from the mapping
denormalize_team_abbr_rams_only(abbr) ==
    CASE abbr = "LA" -> "LAR"
      [] OTHER -> abbr

\* denormalize_team_abbr
denormalize_team_abbr(abbr) ==
    CASE abbr = "LA" -> "LAR"
      [] abbr = "SD" -> "LAC"
      [] OTHER -> abbr

TEAM_NAMES ==
    [ ARI |-> "Cardinals", ATL |-> "Falcons", BAL |-> "Ravens", BUF |-> "Bills",
      CAR |-> "Panthers", CHI |-> "Bears", CIN |-> "Bengals", CLE |-> "Browns",
      DAL |-> "Cowboys", DEN |-> "Broncos", DET |-> "Lions", GB |-> "Packers",
      HOU |-> "Texans", IND |-> "Colts", JAX |-> "Jaguars", KC |-> "Chiefs",
      LAC |-> "Chargers", LAR |-> "Rams", LV |-> "Raiders", MIA |-> "Dolphins",
      MIN |-> "Vikings", NE |-> "Patriots", NO |-> "Saints", NYG |-> "Giants",
      NYJ |-> "Jets", PHI |-> "Eagles", PIT |-> "Steelers", SF |-> "49ers",
      SEA |-> "Seahawks", TB |-> "Buccaneers", TEN |-> "Titans", WAS |-> "Commanders" ]

\* TEAM_NAMES.get(team, team)
TeamDisplayName(team) ==
    IF team \in DOMAIN TEAM_NAMES THEN TEAM_NAMES[team] ELSE team

\* load_vegas_lines: the games of vegas_lines.json as matchups.  The fetchers
\* always write the over_under key, null when no total was found; a null
\* total is carried as the missing value (None in the matchup dict).
load_vegas_lines(file_games) ==
    [ i \in 1..Len(file_games) |->
        [ home_team   |-> normalize_team_abbr(file_games[i].home_team),
          away_team   |-> normalize_team_abbr(file_games[i].away_team),
          vegas_total |-> file_games[i].vegas_total ] ]

\* the last regular-season week kept by get_game_results
LastRegularWeek == 18

\* get_game_results: total_points added, regular season only
get_game_results(g) ==
    SelectSeq([ i \in 1..Len(g) |->
                  g[i] @@ [ total_points |-> Add(g[i].home_score, g[i].away_score) ] ],
              LAMBDA row : row.week <= LastRegularWeek)

\* build_training_data: the four joins (each right table cut to the listed columns)
NflTrainJoin(g, epa, scoring) ==
    LET j1 == MergeLeft(g, "home_team",
                        [ k \in 1..Len(epa) |-> HomeEpa(epa[k]) ], HomeEpa(MissingEpa))
        j2 == MergeLeft(j1, "away_team",
                        [ k \in 1..Len(epa) |-> AwayEpa(epa[k]) ], AwayEpa(MissingEpa))
        j3 == MergeLeft(j2, "home_team",
                        [ k \in 1..Len(scoring) |-> NflHomeScoring(scoring[k]) ], NflHomeScoring(MissingScoring))
    IN  MergeLeft(j3, "away_team",
                  [ k \in 1..Len(scoring) |-> NflAwayScoring(scoring[k]) ], NflAwayScoring(MissingScoring))

\* build_training_data: the derived columns of one row
NflTrainDerived(row) ==
    row @@ [ off_epa_diff      |-> Sub(row.home_off_epa, row.away_off_epa),
             def_epa_diff      |-> Sub(row.home_def_epa, row.away_def_epa),
             home_matchup_edge |-> Sub(row.home_off_epa, row.away_def_epa),
             away_matchup_edge |-> Sub(row.away_off_epa, row.home_def_epa) ]

\* build_training_data(games, team_epa, team_scoring)
NflBuildTrainingData(g, epa, scoring) ==
    LET joined == NflTrainJoin(g, epa, scoring)
    IN  DropNa([ i \in 1..Len(joined) |-> NflTrainDerived(joined[i]) ])

\* train_model: feature_cols
NflFeatureCols ==
    << "home_off_epa", "home_def_epa", "home_off_pass_epa", "home_off_rush_epa",
       "away_off_epa", "away_def_epa", "away_off_pass_epa", "away_off_rush_epa",
       "home_ppg", "away_ppg",
       "home_plays_per_game", "away_plays_per_game",
       "off_epa_diff", "def_epa_diff",
       "home_matchup_edge", "away_matchup_edge" >>

\* train_model(train_df): the exception it raises ("none" when it returns)
TrainModelError(df) ==
    IF Len(df) = 0 THEN "ValueError"
    ELSE IF MatrixHasNaN(SelectColumns(df, NflFeatureCols)) THEN "ValueError"
    ELSE "none"

\* project_games: table[table["team"] == t].iloc[0] if any row matches, else None
Lookup(table, t) ==
    LET m == SelectSeq(table, LAMBDA r : r.team = t)
    IN  IF Len(m) > 0 THEN [ found |-> TRUE, rec |-> m[1] ]
        ELSE [ found |-> FALSE ]

\* project_games: "if home_epa is None or ... : continue"
NflSkipped(mu, epa, scoring) ==
    \/ ~Lookup(epa, mu.home_team).found
    \/ ~Lookup(epa, mu.away_team).found
    \/ ~Lookup(scoring, mu.home_team).found
    \/ ~Lookup(scoring, mu.away_team).found

\* the features dict with away_matchup_edge taken against the away team's own defence
NflProjectFeatures_own_defence(home_epa, away_epa, home_scoring, away_scoring) ==
    [ home_off_epa        |-> home_epa.off_epa_per_play,
      home_def_epa        |-> home_epa.def_epa_per_play,
      home_off_pass_epa   |-> home_epa.off_pass_epa,
      home_off_rush_epa   |-> home_epa.off_rush_epa,
      away_off_epa        |-> away_epa.off_epa_per_play,
      away_def_epa        |-> away_epa.def_epa_per_play,
      away_off_pass_epa   |-> away_epa.off_pass_epa,
      away_off_rush_epa   |-> away_epa.off_rush_epa,
      home_ppg            |-> home_scoring.ppg,
      away_ppg            |-> away_scoring.ppg,
      home_plays_per_game |-> home_scoring.plays_per_game,
      away_plays_per_game |-> away_scoring.plays_per_game,
      off_epa_diff        |-> Sub(home_epa.off_epa_per_play, away_epa.off_epa_per_play),
      def_epa_diff        |-> Sub(home_epa.def_epa_per_play, away_epa.def_epa_per_play),
      home_matchup_edge   |-> Sub(home_epa.off_epa_per_play, away_epa.def_epa_per_play),
      away_matchup_edge   |-> Sub(away_epa.off_epa_per_play, away_epa.def_epa_per_play) ]

\* project_games: the features dict of one matchup
NflProjectFeatures(home_epa, away_epa, home_scoring, away_scoring) ==
    [ home_off_epa        |-> home_epa.off_epa_per_play,
      home_def_epa        |-> home_epa.def_epa_per_play,
      home_off_pass_epa   |-> home_epa.off_pass_epa,
      home_off_rush_epa   |-> home_epa.off_rush_epa,
      away_off_epa        |-> away_epa.off_epa_per_play,
      away_def_epa        |-> away_epa.def_epa_per_play,
      away_off_pass_epa   |-> away_epa.off_pass_epa,
      away_off_rush_epa   |-> away_epa.off_rush_epa,
      home_ppg            |-> home_scoring.ppg,
      away_ppg            |-> away_scoring.ppg,
      home_plays_per_game |-> home_scoring.plays_per_game,
      away_plays_per_game |-> away_scoring.plays_per_game,
      off_epa_diff        |-> Sub(home_epa.off_epa_per_play, away_epa.off_epa_per_play),
      def_epa_diff        |-> Sub(home_epa.def_epa_per_play, away_epa.def_epa_per_play),
      home_matchup_edge   |-> Sub(home_epa.off_epa_per_play, away_epa.def_epa_per_play),
      away_matchup_edge   |-> Sub(away_epa.off_epa_per_play, home_epa.def_epa_per_play) ]

\* the features dict of a matchup that is not skipped, tagged with the matchup
NflFeatureRow(mu, epa, scoring) ==
    NflProjectFeatures(Lookup(epa, mu.home_team).rec, Lookup(epa, mu.away_team).rec,
                       Lookup(scoring, mu.home_team).rec,
                       Lookup(scoring, mu.away_team).rec)
    @@ [ home_team |-> mu.home_team, away_team |-> mu.away_team ]

\* the "if edge > 2 ... elif edge < -2 ... else" of project_games
Recommendation(edge) ==
    IF Gt(edge, 2000) THEN "over"
    ELSE IF Lt(edge, -2000) THEN "under"
    ELSE "hold"

\* round(x, 1): to the nearest tenth, a tie to the even tenth
Round1(x) ==
    IF IsNaN(x) THEN NaN
    ELSE LET q == x \div 100
             r == x % 100
         IN  IF r < 50 THEN 100 * q
             ELSE IF r > 50 THEN 100 * (q + 1)
             ELSE IF q % 2 = 0 THEN 100 * q ELSE 100 * (q + 1)

\* project_games: the record appended for one matchup
NflProjectionRecord(m, mu, f, home_scoring, away_scoring) ==
    LET model_total == PredictRow(m, [ k \in 1..Len(NflFeatureCols) |-> f[NflFeatureCols[k]] ])
        vegas_total == mu.vegas_total
        edge        == Sub(model_total, vegas_total)
        ppg_sum     == home_scoring.ppg + away_scoring.ppg
        home_score  == (model_total * home_scoring.ppg) \div ppg_sum
        away_score  == model_total - home_score
    IN  [ homeTeam       |-> TeamDisplayName(mu.home_team),
          awayTeam       |-> TeamDisplayName(mu.away_team),
          homeAbbr       |-> denormalize_team_abbr(mu.home_team),
          awayAbbr       |-> denormalize_team_abbr(mu.away_team),
          vegasTotal     |-> vegas_total,
          modelTotal     |-> Round1(model_total),
          homeScore      |-> Round1(home_score),
          awayScore      |-> Round1(away_score),
          edge           |-> Round1(edge),
          recommendation |-> Recommendation(edge),
          homeOffEpa     |-> f.home_off_epa,
          homeDefEpa     |-> f.home_def_epa,
          awayOffEpa     |-> f.away_off_epa,
          awayDefEpa     |-> f.away_def_epa ]


\* project_games: the loop over the matchups; the first exception ends it
RECURSIVE NflProjectLoop(_, _, _, _, _)
NflProjectLoop(mus, m, epa, scoring, acc) ==
    IF Len(mus) = 0 \/ acc.err # "none" THEN acc
    ELSE LET mu == Head(mus)
         IN  IF NflSkipped(mu, epa, scoring)
             THEN NflProjectLoop(Tail(mus), m, epa, scoring, acc)
             ELSE LET f == NflFeatureRow(mu, epa, scoring)
                      X == SelectColumns(<< f >>, NflFeatureCols)
                      e == PredictError(m, X, NflFeatureCols, TRUE)
                  IN  IF e # "none"
                      THEN [ err |-> e, rows |-> Append(acc.rows, f), out |-> acc.out ]
                      \* model_total - vegas_total with vegas_total None
                      ELSE IF IsNaN(mu.vegas_total)
                      THEN [ err |-> "TypeError", rows |-> Append(acc.rows, f),
                             out |-> acc.out ]
                      ELSE NflProjectLoop(Tail(mus), m, epa, scoring,
                             [ err  |-> "none",
                               rows |-> Append(acc.rows, f),
                               out  |-> Append(acc.out,
                                          NflProjectionRecord(m, mu, f,
                                              Lookup(scoring, mu.home_team).rec,
                                              Lookup(scoring, mu.away_team).rec)) ])

\* project_games(matchups, model, feature_cols, team_epa, team_scoring)
project_games(mus, m, epa, scoring) ==
    NflProjectLoop(mus, m, epa, scoring, [ err |-> "none", rows |-> << >>, out |-> << >> ])

-----------------------------------------------------------------------------
(* The stand-alone scripts.  Each is a module-level program: it opens its  *)
(* input files by name, computes, and writes its output files by name.     *)
(* A file is [exists, data]; io_log records every file opened and every    *)
(* outside call made, in order, as [script, op, target].                   *)

ENHANCED_ANALYSIS == "public/data/enhanced_analysis.json"

INJURY_REPORT == "public/data/injury_report.json"

OUTPUT_FILE == "public/data/nfl_analysis.json"

ENHANCED_MODEL == "public/data/enhanced_model.json"

VEGAS_LINES_FILE == "public/data/vegas_lines.json"

LAST_UPDATE == "logs/last_update.json"

MODEL_PKL == "models/total_points_model.pkl"

LOGS_DIR == "logs"

WEEKLY_LOG == "logs/weekly_update.log"

FileNames ==
    { ENHANCED_ANALYSIS, INJURY_REPORT, OUTPUT_FILE, ENHANCED_MODEL,
      VEGAS_LINES_FILE, LAST_UPDATE, MODEL_PKL, LOGS_DIR, WEEKLY_LOG }

Absent == [ exists |-> FALSE, data |-> << >> ]

Stored(d) == [ exists |-> TRUE, data |-> d ]

NoFiles == [ f \in FileNames |-> Absent ]

Event(script, op, target) == [ script |-> script, op |-> op, target |-> target ]

\* dict.get(key, default)
DictGet(d, key, default) == IF key \in DOMAIN d THEN d[key] ELSE default

\* the empty dict {}
EmptyDict == << >>

\* 04_enhanced_model: features['..._injury_factor'] after the loop over the
\* high-impact injuries; the factor is held in millionths (1.0 is 1000000),
\* each skill-position injury of the team multiplies it by 0.85
RECURSIVE InjuryFactor(_, _)
InjuryFactor(team, high_impact) ==
    IF Len(high_impact) = 0 THEN 1000000
    ELSE LET before == InjuryFactor(team, SubSeq(high_impact, 1, Len(high_impact) - 1))
             injury == high_impact[Len(high_impact)]
         IN  IF injury.team = team /\ injury.position \in { "WR", "RB", "TE" }
             THEN (before * 85) \div 100
             ELSE before

\* 04_enhanced_model: the feature dict built for one game of nfl_analysis.json
EnhancedFeatures(game, enhanced_data, injury_report) ==
    LET away_team  == game.awayAbbr
        home_team  == game.homeAbbr
        away_stats == DictGet(enhanced_data.team_stats, away_team, EmptyDict)
        home_stats == DictGet(enhanced_data.team_stats, home_team, EmptyDict)
        away_adv   == DictGet(enhanced_data.advanced_stats, away_team, EmptyDict)
        home_adv   == DictGet(enhanced_data.advanced_stats, home_team, EmptyDict)
        high       == DictGet(injury_report.advisory, "high_impact", << >>)
    IN  [ away_off_epa       |-> DictGet(away_stats, "off_epa_per_play", 0),
          home_off_epa       |-> DictGet(home_stats, "off_epa_per_play", 0),
          away_pass_epa      |-> DictGet(away_stats, "off_pass_epa", 0),
          away_rush_epa      |-> DictGet(away_stats, "off_rush_epa", 0),
          home_pass_epa      |-> DictGet(home_stats, "off_pass_epa", 0),
          home_rush_epa      |-> DictGet(home_stats, "off_rush_epa", 0),
          away_def_epa       |-> DictGet(away_stats, "def_epa_per_play", 0),
          home_def_epa       |-> DictGet(home_stats, "def_epa_per_play", 0),
          away_pass_yards    |-> DictGet(away_adv, "pass_yards", 0),
          home_pass_yards    |-> DictGet(home_adv, "pass_yards", 0),
          away_rush_yards    |-> DictGet(away_adv, "rush_yards", 0),
          home_rush_yards    |-> DictGet(home_adv, "rush_yards", 0),
          away_turnovers     |-> DictGet(away_adv, "turnovers", 0),
          home_turnovers     |-> DictGet(home_adv, "turnovers", 0),
          away_injury_factor |-> InjuryFactor(away_team, high),
          home_injury_factor |-> InjuryFactor(home_team, high) ]

\* the columns of features_df, in the order the dict is written
EnhancedFeatureCols ==
    << "away_off_epa", "home_off_epa", "away_pass_epa", "away_rush_epa",
       "home_pass_epa", "home_rush_epa", "away_def_epa", "home_def_epa",
       "away_pass_yards", "home_pass_yards", "away_rush_yards", "home_rush_yards",
       "away_turnovers", "home_turnovers", "away_injury_factor", "home_injury_factor" >>

\* 04_enhanced_model: features_list after the loop over current_analysis['games']
EnhancedFeaturesList(games_in, enhanced_data, injury_report) ==
    [ i \in 1..Len(games_in) |-> EnhancedFeatures(games_in[i], enhanced_data, injury_report) ]

\* 04_enhanced_model: targets after the loop (targets.append(vegas_total))
EnhancedTargets(games_in) == [ i \in 1..Len(games_in) |-> games_in[i].vegasTotal ]

\* y_pred = model.predict(features_scaled) on the rows the model was fitted
\* on.  An ordinary least squares fit with an intercept returns, on its own
\* training rows, the mean target of the rows equal to the row asked for,
\* whenever the distinct rows are affinely independent (they are for every
\* slate explored: at most three distinct rows, never on one line).
InSamplePrediction(rows, y, i) ==
    LET same == { j \in 1..Len(rows) : rows[j] = rows[i] }
    IN  SumSeq([ j \in 1..Len(rows) |-> IF j \in same THEN y[j] ELSE 0 ])
          \div Cardinality(same)

\* 04_enhanced_model: 'over' if pred_total > vegasTotal + 1 else 'under' if
\* pred_total < vegasTotal - 1 else 'hold'
EnhancedRecommendation(pred_total, vegas_total) ==
    IF pred_total > vegas_total + 1000 THEN "over"
    ELSE IF pred_total < vegas_total - 1000 THEN "under"
    ELSE "hold"

\* 04_enhanced_model: the prediction dict of game i
EnhancedPrediction(game, pred_total) ==
    [ game           |-> << game.awayTeam, "@", game.homeTeam >>,
      away_team      |-> game.awayAbbr,
      home_team      |-> game.homeAbbr,
      vegas_total    |-> game.vegasTotal,
      model_total    |-> pred_total,
      edge           |-> pred_total - game.vegasTotal,
      recommendation |-> EnhancedRecommendation(pred_total, game.vegasTotal) ]

\* 04_enhanced_model: predictions, one per game, from y_pred
EnhancedPredictions(games_in, rows, y) ==
    [ i \in 1..Len(games_in) |->
        EnhancedPrediction(games_in[i], InSamplePrediction(rows, y, i)) ]

Abs(x) == IF x < 0 THEN -x ELSE x

\* np.mean of a list, rounded to one decimal; of an empty list it is nan
MeanRound1(s) ==
    IF Len(s) = 0 THEN NaN ELSE Round1(SumSeq(s) \div Len(s))

\* sum(1 for p in projections if p["recommendation"] == pick)
Picks(projs, pick) ==
    Cardinality({ i \in 1..Len(projs) : projs[i].recommendation = pick })

\* calculate_summary_stats with the hold picks left uncounted
calculate_summary_stats_no_hold(projs) ==
    [ gamesAnalyzed |-> Len(projs),
      avgEdge       |-> MeanRound1([ i \in 1..Len(projs) |-> Abs(projs[i].edge) ]),
      overPicks     |-> Picks(projs, "over"),
      underPicks    |-> Picks(projs, "under"),
      holdPicks     |-> 0,
      avgModelTotal |-> MeanRound1([ i \in 1..Len(projs) |-> projs[i].modelTotal ]),
      avgVegasTotal |-> MeanRound1([ i \in 1..Len(projs) |-> projs[i].vegasTotal ]) ]

\* calculate_summary_stats(projections)
calculate_summary_stats(projs) ==
    [ gamesAnalyzed |-> Len(projs),
      avgEdge       |-> MeanRound1([ i \in 1..Len(projs) |-> Abs(projs[i].edge) ]),
      overPicks     |-> Picks(projs, "over"),
      underPicks    |-> Picks(projs, "under"),
      holdPicks     |-> Picks(projs, "hold"),
      avgModelTotal |-> MeanRound1([ i \in 1..Len(projs) |-> projs[i].modelTotal ]),
      avgVegasTotal |-> MeanRound1([ i \in 1..Len(projs) |-> projs[i].vegasTotal ]) ]


\* feature_importance.head(n).to_dict('records'): the n columns of largest
\* |coefficient|, largest first (the coefficients explored are distinct in
\* absolute value, so the order is determined)
TopFeatures(cols, coef, n) ==
    [ r \in 1..n |->
        LET k == CHOOSE k \in 1..Len(cols) :
                   Cardinality({ j \in 1..Len(cols) : Abs(coef[j]) > Abs(coef[k]) }) = r - 1
        IN  [ feature |-> cols[k], coefficient |-> Abs(coef[k]) ] ]

Min(a, b) == IF a < b THEN a ELSE b

Max(a, b) == IF a > b THEN a ELSE b

\* 04_enhanced_model: model_data, the dict written to enhanced_model.json
EnhancedModelData(rows, coef, mae, preds) ==
    [ model_type       |-> "Enhanced Linear Regression",
      features         |-> Len(EnhancedFeatureCols),
      training_samples |-> Len(rows),
      metrics          |-> [ mae |-> mae ],
      top_features     |-> TopFeatures(EnhancedFeatureCols, coef,
                                       Min(10, Len(EnhancedFeatureCols))),
      predictions      |-> preds ]

\* mae = np.mean(np.abs(y_pred - targets))
MeanAbsError(pred, y) ==
    SumSeq([ i \in 1..Len(y) |-> Abs(pred[i] - y[i]) ]) \div Len(y)

\* 04_enhanced_model: the exception that ends the script ("none" when it
\* runs to its last line)
EnhancedModelError(fs) ==
    IF ~fs[ENHANCED_ANALYSIS].exists THEN "FileNotFoundError"
    ELSE IF ~fs[INJURY_REPORT].exists THEN "FileNotFoundError"
    ELSE IF ~fs[OUTPUT_FILE].exists THEN "FileNotFoundError"
    \* StandardScaler.fit_transform of a frame without rows
    ELSE IF Len(fs[OUTPUT_FILE].data.games) = 0 THEN "ValueError"
    ELSE "none"

\* 04_enhanced_model: the files it has opened when it ends, in order
EnhancedModelReads(fs) ==
    IF ~fs[ENHANCED_ANALYSIS].exists THEN << >>
    ELSE IF ~fs[INJURY_REPORT].exists THEN << ENHANCED_ANALYSIS >>
    ELSE IF ~fs[OUTPUT_FILE].exists THEN << ENHANCED_ANALYSIS, INJURY_REPORT >>
    ELSE << ENHANCED_ANALYSIS, INJURY_REPORT, OUTPUT_FILE >>

EventsOf(script, op, names) == [ k \in 1..Len(names) |-> Event(script, op, names[k]) ]

\* the estimator of a stand-alone script after model.fit
ScriptModel(cols, coef, intercept) ==
    [ fitted |-> TRUE, coef |-> coef, intercept |-> intercept, feature_names_in |-> cols ]

(* scripts/05_historical_model.py                                          *)

\* seasons
HistoricalSeasons == << 2022, 2023, 2024 >>

\* feature_cols
HistoricalFeatureCols ==
    << "home_off_epa", "away_off_epa", "home_pass_epa", "away_pass_epa",
       "home_rush_epa", "away_rush_epa", "home_def_epa", "away_def_epa",
       "home_pass_yards", "away_pass_yards", "home_rush_yards", "away_rush_yards",
       "home_turnovers", "away_turnovers" >>

\* the fixed feature vector the script predicts every playoff game from
HistoricalFeatures ==
    << 50, 0, 5000, 4000, 1000, 500, -50, -30, 250000, 240000, 120000, 115000,
       1000, 1000 >>

\* step 1: nfl.import_pbp_data(seasons) in the try block and again in the
\* except block.  first and second are what the two calls do ("ok" or
\* "raises"); first = "no_module" is import nfl_data_py itself failing, after
\* which the except block reaches import_pbp_data(seasons) with seasons unbound.
HistoricalLoad(first, second) ==
    LET call == Event("05_historical_model", "call", "import_pbp_data")
    IN  CASE first = "ok"        -> [ err |-> "none", log |-> << call >> ]
          [] first = "no_module" -> [ err |-> "NameError", log |-> << >> ]
          [] second = "ok"       -> [ err |-> "none", log |-> << call, call >> ]
          [] OTHER               -> [ err |-> "Exception", log |-> << call, call >> ]

\* step 2: actual_total = home_score + away_score of every completed game
HistoricalTotals(completed) ==
    [ i \in 1..Len(completed) |-> 1000 * (completed[i].home_score + completed[i].away_score) ]

\* a sequence without its element at position k
Without(s, k) == SubSeq(s, 1, k - 1) \o SubSeq(s, k + 1, Len(s))

\* np.clip(x, lo, hi)
Clip(x, lo, hi) == IF x < lo THEN lo ELSE IF x > hi THEN hi ELSE x

\* 'over' if pred_total > vegas_total + 2 else 'under' if
\* pred_total < vegas_total - 2 else 'hold'
HistoricalRecommendation(pred_total, vegas_total) ==
    IF pred_total > vegas_total + 2000 THEN "over"
    ELSE IF pred_total < vegas_total - 2000 THEN "under"
    ELSE "hold"

\* step 6: the prediction dict of one game of nfl_analysis.json
HistoricalPrediction(game, m, features_scaled) ==
    LET raw        == PredictRow(m, features_scaled)
        pred_total == Clip(raw, 30000, 80000)
    IN  [ game           |-> << game.awayTeam, "@", game.homeTeam >>,
          away_team      |-> game.awayAbbr,
          home_team      |-> game.homeAbbr,
          vegas_total    |-> game.vegasTotal,
          model_total    |-> pred_total,
          edge           |-> pred_total - game.vegasTotal,
          recommendation |-> HistoricalRecommendation(pred_total, game.vegasTotal) ]

\* step 7: model_data, the dict written to enhanced_model.json
HistoricalModelData(m, n_train, n_test, preds) ==
    [ model_type         |-> "Historical Linear Regression",
      training_source    |-> << HistoricalSeasons[1], HistoricalSeasons[Len(HistoricalSeasons)] >>,
      features           |-> Len(HistoricalFeatureCols),
      training_samples   |-> n_train,
      test_samples       |-> n_test,
      feature_importance |-> TopFeatures(HistoricalFeatureCols, m.coef,
                                         Min(10, Len(HistoricalFeatureCols))),
      predictions        |-> preds ]

\* 05_historical_model, first line to last.  completed are the games with a
\* score in the play-by-play data, test is the row train_test_split holds
\* out, fit is what StandardScaler and LinearRegression return: the
\* coefficients, the intercept and the scaled form of HistoricalFeatures.
HistoricalModelRun(fs, completed, first, second, test, fit) ==
    LET load == HistoricalLoad(first, second)
        y    == HistoricalTotals(completed)
        idle == [ err |-> "none", files |-> fs, log |-> load.log, model |-> NoModel,
                  features_list |-> << >>, targets |-> << >>, predictions |-> << >> ]
    IN  IF load.err # "none" THEN [ idle EXCEPT !.err = load.err ]
        \* games_df['actual_total'] of a frame without columns
        ELSE IF Len(completed) = 0 THEN [ idle EXCEPT !.err = "KeyError" ]
        \* train_test_split leaves no training row
        ELSE IF Len(completed) = 1 THEN [ idle EXCEPT !.err = "ValueError" ]
        ELSE LET y_train == Without(y, test)
                 m       == ScriptModel(HistoricalFeatureCols, fit.coef, fit.intercept)
                 fitted  == [ idle EXCEPT !.model = m, !.targets = y_train ]
             IN  IF ~fs[OUTPUT_FILE].exists
                 THEN [ fitted EXCEPT !.err = "FileNotFoundError" ]
                 ELSE IF ~fs[ENHANCED_ANALYSIS].exists
                 THEN [ fitted EXCEPT !.err = "FileNotFoundError",
                          !.log = Append(load.log,
                                    Event("05_historical_model", "read", OUTPUT_FILE)) ]
                 ELSE LET games_in == fs[OUTPUT_FILE].data.games
                          preds == [ i \in 1..Len(games_in) |->
                                       HistoricalPrediction(games_in[i], m, fit.scaled) ]
                          data  == HistoricalModelData(m, Len(y_train), 1, preds)
                      IN  [ fitted EXCEPT
                              !.features_list = [ i \in 1..Len(games_in) |-> fit.scaled ],
                              !.predictions = preds,
                              !.files = [ fs EXCEPT ![ENHANCED_MODEL] = Stored(data) ],
                              !.log = load.log \o
                                 << Event("05_historical_model", "read", OUTPUT_FILE),
                                    Event("05_historical_model", "read", ENHANCED_ANALYSIS),
                                    Event("05_historical_model", "write", ENHANCED_MODEL) >> ]

(* scripts/fetch_nflfastr_data.py: fetch_pbp_data                          *)

\* fetch_pbp_data(seasons): nfl.import_pbp_data(seasons) and, when it raises
\* and more than one season was asked for, nfl.import_pbp_data(seasons[:-1]).
\* first and second are what the two calls do ("ok" or "raises"); loaded is
\* the seasons of the frame returned.
fetch_pbp_data(seasons, first, second) ==
    LET call == Event("fetch_nflfastr_data", "call", "import_pbp_data")
    IN  IF first = "ok"
        THEN [ err |-> "none", log |-> << call >>, loaded |-> seasons ]
        ELSE IF Len(seasons) > 1
        THEN IF second = "ok"
             THEN [ err |-> "none", log |-> << call, call >>,
                    loaded |-> SubSeq(seasons, 1, Len(seasons) - 1) ]
             ELSE [ err |-> "Exception", log |-> << call, call >>, loaded |-> << >> ]
        ELSE [ err |-> "Exception", log |-> << call >>, loaded |-> << >> ]

(* scripts/06_team_specific_model.py                                       *)

\* calculate_prediction: base_team_score + off_epa * epa_points_per_unit
\* - def_epa * epa_points_per_unit * 0.5, clipped to 10..40
TeamScore(stats) ==
    Clip(23000 + DictGet(stats, "off_epa_per_play", 0) * 35
               - (DictGet(stats, "def_epa_per_play", 0) * 35) \div 2,
         10000, 40000)

\* calculate_prediction(home_stats, away_stats, vegas_total)
calculate_prediction(home_stats, away_stats, vegas_total) ==
    LET home_score == TeamScore(home_stats)
        away_score == TeamScore(away_stats)
    IN  [ pred_total |-> home_score + away_score,
          home_score |-> home_score, away_score |-> away_score ]

\* the prediction dict of one game; a team without stats makes the script
\* take the market total as its own
TeamSpecificPrediction(game, team_stats) ==
    LET vegas_total == game.vegasTotal
        home_stats  == DictGet(team_stats, game.homeAbbr, EmptyDict)
        away_stats  == DictGet(team_stats, game.awayAbbr, EmptyDict)
        p == IF home_stats = EmptyDict \/ away_stats = EmptyDict
             THEN [ pred_total |-> vegas_total, home_score |-> vegas_total \div 2,
                    away_score |-> vegas_total \div 2 ]
             ELSE calculate_prediction(home_stats, away_stats, vegas_total)
    IN  [ game           |-> << game.awayTeam, "@", game.homeTeam >>,
          away_team      |-> game.awayAbbr,
          home_team      |-> game.homeAbbr,
          vegas_total    |-> vegas_total,
          model_total    |-> p.pred_total,
          home_score     |-> p.home_score,
          away_score     |-> p.away_score,
          edge           |-> p.pred_total - vegas_total,
          recommendation |-> HistoricalRecommendation(p.pred_total, vegas_total) ]

\* "Also update nfl_analysis.json with new predictions": game i of the file
\* takes the fields of prediction i
UpdatedGame(game, pred) ==
    [ game EXCEPT !.modelTotal = pred.model_total,
                  !.homeScore = pred.home_score,
                  !.awayScore = pred.away_score,
                  !.edge = pred.edge,
                  !.recommendation = pred.recommendation ]

\* 06_team_specific_model, first line to last
TeamSpecificRun(fs) ==
    LET idle == [ err |-> "none", files |-> fs, log |-> << >>, predictions |-> << >> ]
        script == "06_team_specific_model"
    IN  IF ~fs[ENHANCED_ANALYSIS].exists THEN [ idle EXCEPT !.err = "FileNotFoundError" ]
        ELSE IF ~fs[OUTPUT_FILE].exists
        THEN [ idle EXCEPT !.err = "FileNotFoundError",
                           !.log = << Event(script, "read", ENHANCED_ANALYSIS) >> ]
        ELSE LET nfl_data == fs[OUTPUT_FILE].data
                 preds == [ i \in 1..Len(nfl_data.games) |->
                              TeamSpecificPrediction(nfl_data.games[i],
                                                     fs[ENHANCED_ANALYSIS].data.team_stats) ]
                 output == [ model_type  |-> "Team-Specific EPA Predictions",
                             predictions |-> preds ]
                 updated == [ nfl_data EXCEPT !.games =
                                [ i \in 1..Len(nfl_data.games) |->
                                    UpdatedGame(nfl_data.games[i], preds[i]) ] ]
             IN  [ err |-> "none",
                   predictions |-> preds,
                   files |-> [ fs EXCEPT ![ENHANCED_MODEL] = Stored(output),
                                         ![OUTPUT_FILE] = Stored(updated) ],
                   log |-> << Event(script, "read", ENHANCED_ANALYSIS),
                              Event(script, "read", OUTPUT_FILE),
                              Event(script, "write", ENHANCED_MODEL),
                              Event(script, "read", OUTPUT_FILE),
                              Event(script, "write", OUTPUT_FILE) >> ]

(* scripts/04_enhanced_model.py, the whole script                          *)

\* 04_enhanced_model, first line to last: what it leaves behind, given the
\* files it finds and the coefficients the solver returns
EnhancedModelRun(fs, coef) ==
    LET e     == EnhancedModelError(fs)
        reads == EventsOf("04_enhanced_model", "read", EnhancedModelReads(fs))
    IN  IF e = "FileNotFoundError"
        THEN [ err |-> e, files |-> fs, log |-> reads, model |-> NoModel,
               features_list |-> << >>, targets |-> << >>, predictions |-> << >> ]
        ELSE LET games_in == fs[OUTPUT_FILE].data.games
                 rows     == EnhancedFeaturesList(games_in, fs[ENHANCED_ANALYSIS].data,
                                                  fs[INJURY_REPORT].data)
                 y        == EnhancedTargets(games_in)
             IN  IF e # "none"
                 THEN [ err |-> e, files |-> fs, log |-> reads, model |-> NoModel,
                        features_list |-> rows, targets |-> y, predictions |-> << >> ]
                 ELSE LET preds  == EnhancedPredictions(games_in, rows, y)
                          y_pred == [ i \in 1..Len(preds) |-> preds[i].model_total ]
                          data   == EnhancedModelData(rows, coef,
                                                      MeanAbsError(y_pred, y), preds)
                      IN  [ err |-> "none",
                            \* the columns are centred, so intercept_ is mean(y)
                            model |-> ScriptModel(EnhancedFeatureCols, coef,
                                                  SumSeq(y) \div Len(y)),
                            files |-> [ fs EXCEPT ![ENHANCED_MODEL] = Stored(data) ],
                            log |-> Append(reads,
                                      Event("04_enhanced_model", "write", ENHANCED_MODEL)),
                            features_list |-> rows, targets |-> y,
                            predictions |-> preds ]

(* scripts/05_weekly_scheduler.py                                          *)

\* the scripts automated_update runs, in the order it runs them
SchedulerScripts ==
    << "scripts/fetch_via_odds_api.py", "scripts/02_enhanced_analysis.py",
       "scripts/03_injury_report.py", "scripts/04_enhanced_model.py" >>

\* automated_update with every failing step, the injury report too, ending the cycle
AbortsOnFailure_every_step(k) == k \in { 1, 2, 3, 4 }

\* automated_update: the steps whose failure makes it return False
AbortsOnFailure(k) == k \in { 1, 2, 4 }

\* automated_update: where it stands after run_script of step k returned ok
AfterStep(k, ok) ==
    IF ~ok /\ AbortsOnFailure(k) THEN "failed"
    ELSE CASE k = 1 -> "step2"
           [] k = 2 -> "step3"
           [] k = 3 -> "step4"
           [] k = 4 -> "done"

\* how subprocess.run(['python3', script_path], timeout=300) may end: the
\* child exits with a return code, runs into the timeout (TimeoutExpired),
\* or cannot be started (OSError)
ChildEnds == { "exit 0", "exit 1", "timeout", "OSError" }

\* run_script returning True for every child that exited, whatever its code
run_script_any_exit(child_end) == child_end \in { "exit 0", "exit 1" }

\* run_script(script_path, script_name): the value it returns
run_script(child_end) == child_end = "exit 0"

\* run_script(script_path, script_name): one subprocess.run, the child's end
\* and the result logged; in between are the events of the child itself
RunScriptLog(k, child_log, child_end) ==
    << Event("05_weekly_scheduler", "run", SchedulerScripts[k]) >> \o child_log
       \o << Event("subprocess", "ended", child_end),
             Event("05_weekly_scheduler",
                   IF run_script(child_end) THEN "ok" ELSE "failed",
                   SchedulerScripts[k]) >>

\* fetch_via_odds_api.main: api_key is what get_api_key returned, answer what
\* The-Odds-API answered; fetch_from_odds_api turns every failure into []
OddsApiMain(api_key, answer) ==
    LET fetched_games == IF answer.kind = "value" THEN answer.data ELSE << >>
    IN  IF api_key = "None" THEN [ wrote |-> FALSE, output |-> << >>, log |-> << >> ]
        ELSE IF fetched_games = << >>
        THEN [ wrote |-> FALSE, output |-> << >>,
               log |-> << Event("fetch_via_odds_api", "call", "the-odds-api") >> ]
        ELSE [ wrote |-> TRUE,
               output |-> [ gamesCount |-> Len(fetched_games), games |-> fetched_games ],
               log |-> << Event("fetch_via_odds_api", "call", "the-odds-api"),
                          Event("fetch_via_odds_api", "write", VEGAS_LINES_FILE) >> ]

(* scripts/fetch_vegas_lines.py, fetch_vegas_lines_scraper.py and           *)
(* fetch_vegas_lines_advanced.py: several sources tried for the same lines. *)
(* A source is what it answers when called: it raises, returns None,        *)
(* returns a list or dict (empty or not), or returns a JSON scalar.         *)

Raises == [ kind |-> "raises", data |-> << >> ]

ReturnsNone == [ kind |-> "None", data |-> << >> ]

Returns(d) == [ kind |-> "value", data |-> d ]

\* response.json() of a body that is a number
ReturnsScalar == [ kind |-> "scalar", data |-> << >> ]

\* bool(result) of Python
Truthy(answer) ==
    \/ answer.kind = "scalar"
    \/ answer.kind = "value" /\ DOMAIN answer.data # { }

\* the sources list of fetch_vegas_lines.fetch_from_all_sources
FetchSources ==
    << "fetch_from_the_odds_api", "fetch_from_espn_schedule", "fetch_from_sports_data" >>

\* the sources list of fetch_vegas_lines_scraper.scrape_all_sources
ScraperSources ==
    << "scrape_draftkings_style", "scrape_espn_nfl_schedule", "scrape_bleacher_report" >>

\* the sources list of fetch_vegas_lines_advanced.scrape_all_sources
AdvancedSources ==
    << "scrape_espn_betting_lines", "scrape_reddit_nfl_lines", "scrape_vegasinsider_style" >>

\* fetch_from_all_sources: the for loop from source i on; called holds the
\* indices of the sources called so far
RECURSIVE FetchLoop(_, _, _)
FetchLoop(answers, i, called) ==
    IF i > Len(answers) THEN [ result |-> ReturnsNone, called |-> called ]
    ELSE IF answers[i].kind # "raises" /\ Truthy(answers[i])
         THEN [ result |-> answers[i], called |-> Append(called, i) ]
         ELSE FetchLoop(answers, i + 1, Append(called, i))

fetch_from_all_sources(answers) == FetchLoop(answers, 1, << >>)

\* fetch_vegas_lines_scraper.scrape_all_sources: as above, with len(result)
\* taken too: of a scalar it raises TypeError, which the except swallows
RECURSIVE ScrapeLoop(_, _, _)
ScrapeLoop(answers, i, called) ==
    IF i > Len(answers) THEN [ result |-> ReturnsNone, called |-> called ]
    ELSE IF answers[i].kind = "value" /\ Len(answers[i].data) > 0
         THEN [ result |-> answers[i], called |-> Append(called, i) ]
         ELSE ScrapeLoop(answers, i + 1, Append(called, i))

scraper_scrape_all_sources(answers) == ScrapeLoop(answers, 1, << >>)

\* dict.update: the keys of other overwrite those of d
DictUpdate(d, other) ==
    [ k \in DOMAIN d \cup DOMAIN other |-> IF k \in DOMAIN other THEN other[k] ELSE d[k] ]

\* the value Python's None takes in an over_under field
NoOdds == -1

\* fetch_vegas_lines_advanced.merge_games_with_odds; schedule is the dict of
\* get_this_weekends_games in insertion order, as a sequence of its items
merge_games_with_odds(schedule, odds) ==
    [ k \in 1..Len(schedule) |->
        [ away_team  |-> schedule[k].away_team,
          home_team  |-> schedule[k].home_team,
          over_under |-> IF schedule[k].key \in DOMAIN odds
                         THEN odds[schedule[k].key].over_under ELSE NoOdds ] ]

\* fetch_vegas_lines_advanced.get_hardcoded_games (teams and totals)
AdvancedHardcodedGames ==
    << [ away_team |-> "HOU", home_team |-> "NE",  over_under |-> 43500 ],
       [ away_team |-> "BUF", home_team |-> "DEN", over_under |-> 47500 ],
       [ away_team |-> "LAR", home_team |-> "CHI", over_under |-> 45000 ],
       [ away_team |-> "SF",  home_team |-> "SEA", over_under |-> 48500 ] >>

\* fetch_vegas_lines_advanced.scrape_all_sources, steps 2 and 3: every
\* scraper is called and its odds are poured into all_odds
RECURSIVE AdvancedOdds(_, _, _)
AdvancedOdds(answers, i, all_odds) ==
    IF i > Len(answers) THEN all_odds
    ELSE AdvancedOdds(answers, i + 1,
                      IF answers[i].kind = "value"
                      THEN DictUpdate(all_odds, answers[i].data) ELSE all_odds)

advanced_scrape_all_sources(schedule, answers) ==
    IF schedule = << >>
    THEN [ result |-> Returns(AdvancedHardcodedGames), called |-> << >> ]
    ELSE LET all_odds == AdvancedOdds(answers, 1, EmptyDict)
             merged   == merge_games_with_odds(schedule, all_odds)
             called   == [ i \in 1..Len(answers) |-> i ]
         IN  IF DOMAIN all_odds # { } /\ merged # << >>
             THEN [ result |-> Returns(merged), called |-> called ]
             ELSE [ result |-> Returns(AdvancedHardcodedGames), called |-> called ]

\* the calls of a multi-source fetch, as events
SourceCalls(script, names, called) ==
    [ k \in 1..Len(called) |-> Event(script, "call", names[called[k]]) ]

\* fetch_vegas_lines.get_hardcoded_games: an event is its id and its
\* competitions, a competition its competitors and its odds
RawGame(id, competitors, odds) ==
    [ id |-> id, competitions |-> << [ competitors |-> competitors, odds |-> odds ] >> ]

get_hardcoded_games ==
    << RawGame("1", << "KC", "HOU" >>, << 44500 >>),
       RawGame("2", << "GB", "PHI" >>, << 49000 >>),
       RawGame("3", << "LAR", "DET" >>, << 52500 >>),
       RawGame("4", << "BAL", "BUF" >>, << 48000 >>) >>

\* fetch_vegas_lines.parse_game_odds returns a dict, not None
Parses(game) ==
    /\ game.competitions # << >>
    /\ Len(game.competitions[1].competitors) >= 2

\* fetch_vegas_lines.parse_game_odds, the dict it returns
parse_game_odds(game) ==
    LET competition == game.competitions[1]
    IN  [ id         |-> game.id,
          home_team  |-> competition.competitors[1],
          away_team  |-> competition.competitors[2],
          over_under |-> IF competition.odds # << >> THEN competition.odds[1]
                         ELSE NoOdds ]

\* fetch_vegas_lines.main, the loop "for game in games": the parsed games
ParsedGames(raw) ==
    LET kept == SelectSeq(raw, LAMBDA g : Parses(g))
    IN  [ k \in 1..Len(kept) |-> parse_game_odds(kept[k]) ]

\* fetch_vegas_lines.main: the sources' answers to the exception that ends
\* it and the file it writes.  len(games) of a number raises TypeError.
FetchVegasLinesMain(answers) ==
    LET f      == fetch_from_all_sources(answers)
        games1 == IF Truthy(f.result) THEN f.result.data ELSE get_hardcoded_games
        first  == ParsedGames(games1)
        parsed == IF first = << >> THEN ParsedGames(get_hardcoded_games) ELSE first
    IN  IF f.result.kind = "scalar"
        THEN [ err |-> "TypeError", wrote |-> FALSE, output |-> << >>, fetch |-> f ]
        ELSE [ err |-> "none", wrote |-> TRUE,
               output |-> [ gamesCount |-> Len(parsed), games |-> parsed ],
               fetch |-> f ]

(* The divisional-round projection in its three variants.                  *)

\* scripts/03_project_playoffs.py: get_signal(diff)
playoffs_get_signal(diff) ==
    IF Gt(diff, 2000) THEN "OVER"
    ELSE IF Lt(diff, -2000) THEN "UNDER"
    ELSE "NO EDGE"

\* scripts/nfl_betting_complete.py: get_signal(diff)
complete_get_signal(diff) ==
    IF Gt(diff, 2000) THEN "OVER"
    ELSE IF Lt(diff, -2000) THEN "UNDER"
    ELSE "NO EDGE"

\* scripts/nfl_betting_notebook.py: the lambda applied to the difference
notebook_signal(d) ==
    IF Gt(d, 2000) THEN "OVER" ELSE (IF Lt(d, -2000) THEN "UNDER" ELSE "NO EDGE")

\* the signal column of each variant for a prediction model_total of
\* model.predict and a Vegas total: the two scripts classify the unrounded
\* difference, the notebook rounds the prediction, then the difference
SignalVariants(model_total, vegas_total) ==
    [ model_total |-> model_total,
      vegas_total |-> vegas_total,
      playoffs    |-> playoffs_get_signal(Sub(model_total, vegas_total)),
      complete    |-> complete_get_signal(Sub(model_total, vegas_total)),
      notebook    |-> notebook_signal(Round1(Sub(Round1(model_total), vegas_total))) ]

-----------------------------------------------------------------------------
(* The inputs explored.                                                    *)

E_KC  == [ team |-> "KC",  off_epa_per_play |-> 100, def_epa_per_play |-> -50,
           off_pass_epa |-> 150, off_rush_epa |-> 20,
           def_pass_epa |-> -30, def_rush_epa |-> -80 ]
E_BUF == [ team |-> "BUF", off_epa_per_play |-> -20, def_epa_per_play |-> 30,
           off_pass_epa |-> -10, off_rush_epa |-> -40,
           def_pass_epa |-> 50, def_rush_epa |-> 10 ]
\* a second record with the team id of E_KC
E_KC2 == [ team |-> "KC",  off_epa_per_play |-> 60, def_epa_per_play |-> 10,
           off_pass_epa |-> 80, off_rush_epa |-> 30,
           def_pass_epa |-> 20, def_rush_epa |-> -10 ]
\* a team with no pass play recorded: calculate_team_epa leaves the split NaN
E_LA  == [ team |-> "LA",  off_epa_per_play |-> 40, def_epa_per_play |-> -10,
           off_pass_epa |-> NaN, off_rush_epa |-> 40,
           def_pass_epa |-> 0, def_rush_epa |-> -20 ]

EpaCatalogue == { E_KC, E_BUF, E_KC2, E_LA }

S_KC  == [ team |-> "KC",  ppg |-> 27000, home_ppg |-> 29000, away_ppg |-> 25000,
           plays_per_game |-> 64000, points_per_play |-> 422 ]
S_BUF == [ team |-> "BUF", ppg |-> 24000, home_ppg |-> 26000, away_ppg |-> 22000,
           plays_per_game |-> 62000, points_per_play |-> 387 ]
S_LA  == [ team |-> "LA",  ppg |-> 21000, home_ppg |-> 21500, away_ppg |-> 20500,
           plays_per_game |-> 60000, points_per_play |-> 350 ]

ScoringCatalogue == { S_KC, S_BUF, S_LA }

GameCatalogue ==
    { [ game_id |-> 1, week |-> 2,  home_team |-> "KC",  away_team |-> "BUF",
        home_score |-> 27, away_score |-> 24 ],   \* scores are whole points
      [ game_id |-> 2, week |-> 1,  home_team |-> "LA",  away_team |-> "KC",
        home_score |-> 20, away_score |-> 17 ],
      [ game_id |-> 3, week |-> 19, home_team |-> "BUF", away_team |-> "KC",
        home_score |-> 31, away_score |-> 10 ] }

Line(h, a, total) == [ home_team |-> h, away_team |-> a, vegas_total |-> total ]

LineCatalogue ==
    { Line("KC", "BUF", 45500), Line("KC", "BUF", 46500), Line("KC", "BUF", 50500),
      Line("KC", "BUF", 45250), Line("KC", "BUF", 48500), Line("BUF", "KC", 51000),
      Line("LAR", "KC", 47000), Line("LA", "KC", 44000),
      Line("KC", "BUF", 47100), Line("KC", "BUF", NaN) }

Thresholds == { 0, 2000, 3000 }

\* feature lists a caller may pass
Permuted ==
    [ k \in 1..Len(DEFAULT_FEATURES) |->
        CASE k = 1 -> DEFAULT_FEATURES[5]
          [] k = 5 -> DEFAULT_FEATURES[1]
          [] OTHER -> DEFAULT_FEATURES[k] ]

FitColumnArgs ==
    { NoneArg, Given(Permuted), Given(<< "home_matchup_edge" >>),
      Given(SubSeq(DEFAULT_FEATURES, 1, Len(DEFAULT_FEATURES) - 1)) }

ProjColumnArgs ==
    FitColumnArgs \cup { Given(<< "home_matchup_edge", "home_ppg" >>) }

\* the (home, away) pairs of a lines table, each once, in order
RECURSIVE PairsOf(_)
PairsOf(lines) ==
    IF Len(lines) = 0 THEN << >>
    ELSE LET rest == PairsOf(SubSeq(lines, 1, Len(lines) - 1))
             p    == [ home_team |-> lines[Len(lines)].home_team,
                       away_team |-> lines[Len(lines)].away_team ]
         IN  IF p \in RangeOf(rest) THEN rest ELSE Append(rest, p)

\* a team table holding two records with one team id
HasDuplicateTeam(table) ==
    \E i, j \in 1..Len(table) : i # j /\ table[i].team = table[j].team

\* a game on the slate for which the book quotes no line
Unlined == [ home_team |-> "BUF", away_team |-> "KC" ]

CompleteEpa == << E_KC, E_BUF >>

CompleteScoring == << S_KC, S_BUF >>

\* the slate sizes and injury lists explored for the stand-alone scripts
MaxSlate    == 2
MaxInjuries == 2

\* the lines with a quoted total
QuotedLines == { l \in LineCatalogue : ~IsNaN(l.vegas_total) }

\* a run of project_games that stocks nfl_analysis.json
AnalysisRun(lines) ==
    project_games(load_vegas_lines(lines),
                  FittedOn(NflFeatureCols,
                           CHOOSE sol \in LstsqOutcomes : sol.intercept = 45000),
                  << E_KC, E_BUF, E_LA >>, << S_KC, S_BUF, S_LA >>)

\* nfl_analysis.json as fetch_nflfastr_data.main writes it: 'games' holds the
\* records project_games returned
AnalysisFile(lines) == [ games |-> AnalysisRun(lines).out ]

AnalysisFiles ==
    { AnalysisFile(lines) :
        lines \in { l \in InjSeqs(QuotedLines, 0, MaxSlate) : AnalysisRun(l).err = "none" } }

\* enhanced_analysis.json as 02_enhanced_analysis writes it: one entry per
\* key of TEAM_ABBR (nflfastR calls the Rams "LA", so "LAR" has no plays)
EnhancedData ==
    [ team_stats |->
        [ t \in { "KC", "BUF", "LAR" } |->
            CASE t = "KC"  -> [ off_epa_per_play |-> 100, def_epa_per_play |-> -50,
                                off_pass_epa |-> 150000, off_rush_epa |-> 20000 ]
              [] t = "BUF" -> [ off_epa_per_play |-> -20, def_epa_per_play |-> 30,
                                off_pass_epa |-> 90000, off_rush_epa |-> 40000 ]
              [] OTHER     -> [ off_epa_per_play |-> 0, def_epa_per_play |-> 0,
                                off_pass_epa |-> 0, off_rush_epa |-> 0 ] ],
      advanced_stats |->
        [ t \in { "KC", "BUF", "LAR" } |->
            CASE t = "KC"  -> [ pass_yards |-> 4200000, rush_yards |-> 1900000,
                                turnovers |-> 14000 ]
              [] t = "BUF" -> [ pass_yards |-> 3900000, rush_yards |-> 2100000,
                                turnovers |-> 8000 ]
              [] OTHER     -> [ pass_yards |-> 0, rush_yards |-> 0, turnovers |-> 0 ] ] ]

Injury(team, position) == [ team |-> team, position |-> position ]

InjuryCatalogue == { Injury("KC", "WR"), Injury("KC", "QB"), Injury("BUF", "RB") }

InjuryFile(high_impact) == [ advisory |-> [ high_impact |-> high_impact ] ]

InjuryFiles == { InjuryFile(h) : h \in InjSeqs(InjuryCatalogue, 0, MaxInjuries) }

\* the coefficients a fit of the sixteen columns may return
EnhancedCoefOutcomes ==
    { [ k \in 1..Len(EnhancedFeatureCols) |-> IF k % 2 = 0 THEN 100 * k ELSE -100 * k ] }

\* no outside source is asked
NoWeb == [ schedule |-> << >>, answers |-> << >> ]

\* the event a source of fetch_vegas_lines reports: each source quotes its
\* own total, so that the origin of a returned game can be told
SourceTotal(i) == 45000 + 500 * i

SourceEventId == << "odds-api-1", "espn-1", "sportsdata-1" >>

\* what source i of fetch_vegas_lines may answer: nothing, an empty list, a
\* number, an event that parses, an event without competitors
FetchAnswers(i) ==
    { Raises, ReturnsNone, Returns(<< >>), ReturnsScalar,
      Returns(<< RawGame(SourceEventId[i], << "KC", "BUF" >>, << SourceTotal(i) >>) >>),
      Returns(<< RawGame(SourceEventId[i], << >>, << >>) >>) }

\* what scraper i of fetch_vegas_lines_scraper may answer
ScraperAnswers(i) ==
    { Raises, ReturnsNone, Returns(<< >>),
      Returns(<< [ away_team |-> "BUF", home_team |-> "KC",
                   over_under |-> SourceTotal(i) ] >>) }

\* the dict a scraper of fetch_vegas_lines_advanced returns for one game
OddsFor(game_key, i) ==
    [ k \in { game_key } |-> [ over_under |-> SourceTotal(i) ] ]

\* what scraper i of fetch_vegas_lines_advanced may answer
AdvancedAnswers(i) ==
    { Raises, Returns(EmptyDict), Returns(OddsFor("BUF_KC", i)),
      Returns(OddsFor("PHI_GB", i)) }

\* what get_this_weekends_games may return, as the items of the dict
Schedules ==
    { << >>,
      << [ key |-> "BUF_KC", away_team |-> "BUF", home_team |-> "KC" ] >>,
      << [ key |-> "BUF_KC", away_team |-> "BUF", home_team |-> "KC" ],
         [ key |-> "PHI_GB", away_team |-> "PHI", home_team |-> "GB" ] >> }

InitRun ==
    /\ pc = "start"
    /\ err = "none"
    /\ train_df = << >>
    /\ proj_df = << >>
    /\ projections = << >>
    /\ targets = << >>
    /\ script_pc = "idle"
    /\ script_err = "none"
    /\ features_list = << >>
    /\ predictions = << >>
    /\ script_model = NoModel
    /\ pbp_seasons = << >>
    /\ loaded_metrics = << >>
    /\ fetched = ReturnsNone
    /\ summary = << >>
    /\ signals = << >>

\* what StandardScaler and LinearRegression of 05_historical_model may
\* return: a prediction inside the band 30..80, one below it, one above it
HistoricalFit(j, c, intercept, v) ==
    [ coef      |-> [ k \in 1..Len(HistoricalFeatureCols) |-> IF k = j THEN c ELSE k ],
      intercept |-> intercept,
      scaled    |-> [ k \in 1..Len(HistoricalFeatureCols) |-> IF k = j THEN v ELSE 0 ] ]

HistoricalFitOutcomes ==
    { HistoricalFit(1, 50, 45000, 70), HistoricalFit(1, -20, 44000, 750),
      HistoricalFit(9, 30, 50000, 1100) }

\* a run of a library pipeline: the stand-alone scripts' files play no part
InitLibrary ==
    /\ web = NoWeb
    /\ model = NoModel
    /\ metrics = << >>
    /\ files = NoFiles
    /\ io_log = << >>

\* a run of a stand-alone script: the library pipelines' arguments play no part
InitScript ==
    /\ web = NoWeb
    /\ model = NoModel
    /\ metrics = << >>
    /\ team_epa = << >>
    /\ team_scoring = << >>
    /\ upcoming = << >>
    /\ vegas_lines = << >>
    /\ fit_columns = NoneArg
    /\ proj_columns = NoneArg
    /\ edge_threshold = 2000

\* the team tables vary
InitTables ==
    /\ variant \in { "utils", "nflfastr" }
    /\ team_epa \in InjSeqs(EpaCatalogue, 0, MaxTeamRows)
    /\ team_scoring \in InjSeqs(ScoringCatalogue, 0, MaxTeamRows)
    \* calculate_team_epa groups the plays by team: one record per team id
    /\ variant = "nflfastr" => ~HasDuplicateTeam(team_epa)
    /\ games \in { << CHOOSE g \in GameCatalogue : g.game_id = 1 >>,
                   << CHOOSE g \in GameCatalogue : g.game_id = 1,
                      CHOOSE g \in GameCatalogue : g.game_id = 2 >> }
    /\ vegas_lines \in { << Line("KC", "BUF", 45500) >>,
                         << Line("KC", "BUF", 45500), Line("LA", "KC", 44000) >> }
    /\ upcoming = PairsOf(vegas_lines)
    /\ fit_columns = NoneArg
    /\ proj_columns = NoneArg
    /\ edge_threshold = 2000

\* the completed games vary
InitGames ==
    /\ variant \in { "utils", "nflfastr" }
    /\ team_epa = << E_KC, E_BUF, E_LA >>
    /\ team_scoring = << S_KC, S_BUF, S_LA >>
    /\ games \in InjSeqs(GameCatalogue, 0, MaxGames)
    /\ vegas_lines = << Line("KC", "BUF", 45500), Line("LA", "KC", 44000) >>
    /\ upcoming = PairsOf(vegas_lines)
    /\ fit_columns \in { NoneArg, Given(<< "home_matchup_edge" >>) }
    /\ proj_columns = fit_columns
    /\ edge_threshold = 2000

\* the lines, the slate and the threshold vary
InitLines ==
    /\ variant \in { "utils", "nflfastr" }
    /\ team_epa = CompleteEpa
    /\ team_scoring = CompleteScoring
    /\ games = << CHOOSE g \in GameCatalogue : g.game_id = 1 >>
    /\ vegas_lines \in InjSeqs(LineCatalogue, 0, MaxMatchups)
    /\ fit_columns = NoneArg
    /\ proj_columns = NoneArg
    /\ IF variant = "utils"
       THEN /\ upcoming \in { PairsOf(vegas_lines) } \cup
                    (IF Unlined \in RangeOf(PairsOf(vegas_lines)) THEN { }
                     ELSE { Append(PairsOf(vegas_lines), Unlined) })
            /\ edge_threshold \in Thresholds
       ELSE /\ upcoming = << >>
            /\ edge_threshold = 2000

\* the feature lists the caller passes vary
InitColumns ==
    /\ variant = "utils"
    /\ team_epa = CompleteEpa
    /\ team_scoring = CompleteScoring
    /\ games = << CHOOSE g \in GameCatalogue : g.game_id = 1 >>
    /\ vegas_lines = << Line("KC", "BUF", 45500) >>
    /\ upcoming = PairsOf(vegas_lines)
    /\ fit_columns \in FitColumnArgs
    /\ proj_columns \in ProjColumnArgs
    /\ edge_threshold = 2000

\* the files 04_enhanced_model finds: each may be missing, the slate and the
\* injury list vary
InitEnhanced ==
    /\ variant = "enhanced"
    /\ games = << >>
    /\ io_log = << >>
    /\ \E present \in [ { ENHANCED_ANALYSIS, INJURY_REPORT, OUTPUT_FILE } -> BOOLEAN ],
          analysis \in AnalysisFiles, injuries \in InjuryFiles :
          /\ (\E f \in DOMAIN present : ~present[f])
                => /\ analysis = AnalysisFile(<< Line("KC", "BUF", 45500) >>)
                   /\ injuries = InjuryFile(<< >>)
          \* the injury list varies under one slate, the slate under one list
          /\ injuries # InjuryFile(<< >>)
                => analysis = AnalysisFile(<< Line("KC", "BUF", 45500),
                                             Line("BUF", "KC", 51000) >>)
          /\ files = [ f \in FileNames |->
                         IF f \in DOMAIN present /\ ~present[f] THEN Absent
                         ELSE CASE f = ENHANCED_ANALYSIS -> Stored(EnhancedData)
                                [] f = INJURY_REPORT     -> Stored(injuries)
                                [] f = OUTPUT_FILE       -> Stored(analysis)
                                [] OTHER                 -> Absent ]

\* what 05_historical_model finds: the completed games of the play-by-play
\* data vary, each input file may be missing, the slate varies
InitHistorical ==
    /\ variant = "historical"
    /\ io_log = << >>
    /\ games \in InjSeqs(GameCatalogue, 0, MaxGames)
    /\ \E present \in [ { ENHANCED_ANALYSIS, OUTPUT_FILE } -> BOOLEAN ],
          analysis \in AnalysisFiles :
          /\ (\E f \in DOMAIN present : ~present[f])
                => analysis = AnalysisFile(<< Line("KC", "BUF", 45500) >>)
          \* the slate varies under one pair of completed games
          /\ games # << CHOOSE g \in GameCatalogue : g.game_id = 1,
                        CHOOSE g \in GameCatalogue : g.game_id = 2 >>
                => analysis = AnalysisFile(<< Line("KC", "BUF", 45500) >>)
          /\ files = [ f \in FileNames |->
                         IF f \in DOMAIN present /\ ~present[f] THEN Absent
                         ELSE CASE f = ENHANCED_ANALYSIS -> Stored(EnhancedData)
                                [] f = OUTPUT_FILE       -> Stored(analysis)
                                [] OTHER                 -> Absent ]

\* the files an earlier script left for the next one
FilesOf(analysis, injuries) ==
    [ f \in FileNames |->
        CASE f = ENHANCED_ANALYSIS -> Stored(EnhancedData)
          [] f = INJURY_REPORT     -> Stored(injuries)
          [] f = OUTPUT_FILE       -> Stored(analysis)
          [] OTHER                 -> Absent ]

\* what 06_team_specific_model finds: the directory as the fetch scripts left
\* it (an input may be missing), or as a run of 04_enhanced_model left it
InitTeamSpecific ==
    /\ variant = "team_specific"
    /\ games = << >>
    /\ \E analysis \in AnalysisFiles, after_enhanced \in BOOLEAN,
          missing \in { "none", ENHANCED_ANALYSIS, OUTPUT_FILE } :
          LET found == FilesOf(analysis, InjuryFile(<< >>))
              r == EnhancedModelRun(found, CHOOSE coef \in EnhancedCoefOutcomes : TRUE)
          IN  /\ missing # "none" =>
                    /\ ~after_enhanced
                    /\ analysis = AnalysisFile(<< Line("KC", "BUF", 45500) >>)
              /\ after_enhanced => r.err = "none"
              /\ files = IF after_enhanced THEN r.files
                         ELSE [ f \in FileNames |-> IF f = missing THEN Absent ELSE found[f] ]
              /\ io_log = IF after_enhanced THEN r.log ELSE << >>

\* the seasons fetch_pbp_data may be asked for: TRAINING_SEASONS as
\* configured, and a list of two seasons
SeasonArgs == { << 2024 >>, << 2023, 2024 >> }

\* a call of fetch_pbp_data: no file is involved
InitFetchPbp ==
    /\ variant = "fetch_pbp"
    /\ games = << >>
    /\ files = NoFiles
    /\ io_log = << >>

\* the metrics dicts handed to save_model: the one fit_total_model returns,
\* the empty dict, and a dict that names the kind of model under "model"
MetricsArgs ==
    { [ r2_score |-> 640, mae |-> 3100, feature_columns |-> DEFAULT_FEATURES ],
      << >>,
      [ mae |-> 3100, model |-> [ kind |-> "LinearRegression" ] ] }

\* a fitted model and a metrics dict about to be saved
InitPersist ==
    /\ variant = "persist"
    /\ web = NoWeb
    /\ model \in { FittedOn(DEFAULT_FEATURES, sol) : sol \in LstsqOutcomes }
    /\ metrics \in MetricsArgs
    /\ team_epa = << >>
    /\ team_scoring = << >>
    /\ games = << >>
    /\ upcoming = << >>
    /\ vegas_lines = << >>
    /\ fit_columns = NoneArg
    /\ proj_columns = NoneArg
    /\ edge_threshold = 2000
    /\ files = NoFiles
    /\ io_log = << >>

\* what fetch_via_odds_api writes when it has fetched lines
FetchedLines == [ games |-> << Line("KC", "BUF", 45500) >> ]

\* the directory a weekly cycle starts in: each data file is left over from
\* an earlier run or was never written
InitScheduler ==
    /\ variant = "scheduler"
    /\ games = << >>
    /\ io_log = << >>
    /\ \E present \in [ { ENHANCED_ANALYSIS, INJURY_REPORT, OUTPUT_FILE, LOGS_DIR }
                            -> BOOLEAN ] :
          files = [ f \in FileNames |->
                      IF f \in DOMAIN present /\ ~present[f] THEN Absent
                      ELSE IF f = LOGS_DIR THEN Stored(<< >>)
                      ELSE FilesOf(AnalysisFile(<< Line("KC", "BUF", 45500) >>),
                                   InjuryFile(<< Injury("KC", "WR") >>))[f] ]

\* a run of a lines fetcher: the sources answer as they will
InitFetcher ==
    /\ model = NoModel
    /\ metrics = << >>
    /\ team_epa = << >>
    /\ team_scoring = << >>
    /\ games = << >>
    /\ upcoming = << >>
    /\ vegas_lines = << >>
    /\ fit_columns = NoneArg
    /\ proj_columns = NoneArg
    /\ edge_threshold = 2000
    /\ files = NoFiles
    /\ io_log = << >>
    /\ \/ /\ variant = "fetch_vegas_lines"
          /\ \E a1 \in FetchAnswers(1), a2 \in FetchAnswers(2), a3 \in FetchAnswers(3) :
                web = [ schedule |-> << >>, answers |-> << a1, a2, a3 >> ]
       \/ /\ variant = "fetch_vegas_lines_scraper"
          /\ \E a1 \in ScraperAnswers(1), a2 \in ScraperAnswers(2),
                a3 \in ScraperAnswers(3) :
                web = [ schedule |-> << >>, answers |-> << a1, a2, a3 >> ]
       \/ /\ variant = "fetch_vegas_lines_advanced"
          /\ \E s \in Schedules, a1 \in AdvancedAnswers(1), a2 \in AdvancedAnswers(2),
                a3 \in AdvancedAnswers(3) :
                web = [ schedule |-> s, answers |-> << a1, a2, a3 >> ]

\* the Vegas totals and the predictions the signal variants are compared
\* on: every hundredth of a point around both thresholds
SignalTotals == { 47000, 47500 }

SignalPredictions == { 47500 + 10 * k : k \in -220..220 }

\* the three variants of the divisional-round projection side by side
InitSignalVariants ==
    /\ variant = "signal_variants"
    /\ games = << >>
    /\ files = NoFiles
    /\ io_log = << >>

\* the two Los Angeles teams as nflfastR names them, with complete records
E_RAMS == [ E_LA EXCEPT !.off_pass_epa = 60 ]

E_SD == [ E_BUF EXCEPT !.team = "SD" ]

S_SD == [ S_BUF EXCEPT !.team = "SD" ]

\* the lines file names the Los Angeles teams by their standard codes, or
\* the Rams the way nflfastR does
InitLosAngeles ==
    /\ variant = "nflfastr"
    /\ team_epa = << E_KC, E_RAMS, E_SD >>
    /\ team_scoring = << S_KC, S_LA, S_SD >>
    /\ games = << CHOOSE g \in GameCatalogue : g.game_id = 2 >>
    /\ vegas_lines \in { << Line("LAR", "LAC", 47000) >>,
                         << Line("LAC", "KC", 45500), Line("KC", "LAR", 46500) >>,
                         << Line("LA", "KC", 44000) >> }
    /\ upcoming = << >>
    /\ fit_columns = NoneArg
    /\ proj_columns = NoneArg
    /\ edge_threshold = 2000

Init ==
    /\ InitRun
    /\ \/ InitLibrary /\ (InitTables \/ InitGames \/ InitLines \/ InitColumns
                           \/ InitLosAngeles)
       \/ InitScript /\ (InitEnhanced \/ InitHistorical \/ InitTeamSpecific
                          \/ InitFetchPbp \/ InitScheduler \/ InitSignalVariants)
       \/ InitPersist
       \/ InitFetcher

-----------------------------------------------------------------------------
(* The runs.                                                               *)

Fail(e) ==
    /\ pc' = "failed"
    /\ err' = e

\* 04_analysis_utils.build_training_data
UtilsBuild ==
    /\ variant = "utils"
    /\ pc = "start"
    /\ train_df' = UtilsBuildTrainingData(games, team_epa, team_scoring)
    /\ pc' = "built"
    /\ UNCHANGED << inputs, report_vars, err, model, metrics, proj_df, projections >>
    /\ UNCHANGED << targets, script_vars >>

\* 04_analysis_utils.fit_total_model
UtilsFit ==
    /\ variant = "utils"
    /\ pc = "built"
    /\ LET e == FitTotalModelError(train_df, fit_columns)
           cols == ColumnsOrDefault(fit_columns)
           \* y = training_df['total_points'], in thousandths of a point
           y == [ i \in 1..Len(train_df) |-> 1000 * train_df[i].total_points ]
       IN  /\ targets' = IF e = "KeyError" THEN targets ELSE y
           /\ IF e # "none"
              THEN /\ Fail(e)
                   /\ UNCHANGED << model, metrics >>
              ELSE /\ \E sol \in LstsqOutcomes :
                        /\ model' = FittedOn(cols, sol)
                        /\ metrics' = [ r2_score |-> sol.r2_score, mae |-> sol.mae,
                                        feature_columns |-> cols ]
                   /\ pc' = "fitted"
                   /\ UNCHANGED err
    /\ UNCHANGED << inputs, report_vars, train_df, proj_df, projections >>
    /\ UNCHANGED script_vars

\* 04_analysis_utils.project_week
UtilsProject ==
    /\ variant = "utils"
    /\ pc = "fitted"
    /\ LET result == UtilsProjectFeatures(upcoming, vegas_lines, team_epa, team_scoring)
           cols   == ColumnsOrDefault(proj_columns)
       IN  /\ proj_df' = result
           /\ IF ~(RangeOf(cols) \subseteq UtilsProjectColumns)
              THEN /\ Fail("KeyError")
                   /\ UNCHANGED projections
              ELSE \E checks_names \in BOOLEAN :
                     LET e == PredictError(model, SelectColumns(result, cols), cols,
                                           checks_names)
                     IN  IF e # "none"
                         THEN /\ Fail(e)
                              /\ UNCHANGED projections
                         ELSE /\ projections' =
                                    [ i \in 1..Len(result) |->
                                        UtilsProjectionRecord(model, result[i], cols,
                                                              edge_threshold) ]
                              /\ pc' = "projected"
                              /\ UNCHANGED err
    /\ UNCHANGED << inputs, report_vars, train_df, model, metrics >>
    /\ UNCHANGED << targets, script_vars >>

\* fetch_nflfastr_data.main: no lines, nothing to do
NflNoLines ==
    /\ variant = "nflfastr"
    /\ pc = "start"
    /\ Len(load_vegas_lines(vegas_lines)) = 0
    /\ pc' = "returned"
    /\ UNCHANGED << inputs, report_vars, err, train_df, model, metrics, proj_df, projections >>
    /\ UNCHANGED << targets, script_vars >>

\* fetch_nflfastr_data.main, step 3: get_game_results and build_training_data
NflBuild ==
    /\ variant = "nflfastr"
    /\ pc = "start"
    /\ Len(load_vegas_lines(vegas_lines)) > 0
    /\ train_df' = NflBuildTrainingData(get_game_results(games), team_epa, team_scoring)
    /\ pc' = "built"
    /\ UNCHANGED << inputs, report_vars, err, model, metrics, proj_df, projections >>
    /\ UNCHANGED << targets, script_vars >>

\* fetch_nflfastr_data.main, step 4: train_model
NflTrain ==
    /\ variant = "nflfastr"
    /\ pc = "built"
    /\ LET e == TrainModelError(train_df)
       IN  \* y = train_df['total_points'], in thousandths of a point
           /\ targets' = [ i \in 1..Len(train_df) |-> 1000 * train_df[i].total_points ]
           /\ IF e # "none"
              THEN /\ Fail(e)
                   /\ UNCHANGED << model, metrics >>
              ELSE /\ \E sol \in LstsqOutcomes :
                        /\ model' = FittedOn(NflFeatureCols, sol)
                        /\ metrics' = [ r2_score |-> sol.r2_score, mae |-> sol.mae,
                                        training_samples |-> Len(train_df) ]
                   /\ pc' = "fitted"
                   /\ UNCHANGED err
    /\ UNCHANGED << inputs, report_vars, train_df, proj_df, projections >>
    /\ UNCHANGED script_vars

\* fetch_nflfastr_data.main, step 5: project_games
NflProject ==
    /\ variant = "nflfastr"
    /\ pc = "fitted"
    /\ LET r == project_games(load_vegas_lines(vegas_lines), model, team_epa, team_scoring)
       IN  /\ proj_df' = r.rows
           /\ IF r.err # "none"
              THEN /\ Fail(r.err)
                   /\ UNCHANGED projections
              ELSE /\ projections' = r.out
                   /\ pc' = "projected"
                   /\ UNCHANGED err
           /\ summary' = IF r.err # "none" THEN summary
                         ELSE calculate_summary_stats(r.out)
    /\ UNCHANGED << inputs, web, fetched, signals, train_df, model, metrics >>
    /\ UNCHANGED << targets, script_vars >>

ScriptEnds(e) ==
    /\ script_pc' = (IF e = "none" THEN "done" ELSE "failed")
    /\ script_err' = e

\* python3 scripts/04_enhanced_model.py
RunEnhancedModel ==
    /\ variant = "enhanced"
    /\ script_pc = "idle"
    /\ \E coef \in EnhancedCoefOutcomes :
          LET r == EnhancedModelRun(files, coef)
          IN  /\ ScriptEnds(r.err)
              /\ files' = r.files
              /\ io_log' = io_log \o r.log
              /\ features_list' = r.features_list
              /\ targets' = r.targets
              /\ predictions' = r.predictions
              /\ script_model' = r.model
    /\ UNCHANGED << inputs, report_vars, pipeline_vars, pbp_seasons, loaded_metrics >>

\* python3 scripts/05_historical_model.py
RunHistoricalModel ==
    /\ variant = "historical"
    /\ script_pc = "idle"
    /\ \E first \in { "ok", "raises", "no_module" }, second \in { "ok", "raises" },
          test \in 1..Max(1, Len(games)), fit \in HistoricalFitOutcomes :
          LET r == HistoricalModelRun(files, games, first, second, test, fit)
          IN  /\ ScriptEnds(r.err)
              /\ files' = r.files
              /\ io_log' = io_log \o r.log
              /\ features_list' = r.features_list
              /\ targets' = r.targets
              /\ predictions' = r.predictions
              /\ script_model' = r.model
              /\ pbp_seasons' = (IF HistoricalLoad(first, second).err = "none"
                                 THEN HistoricalSeasons ELSE << >>)
    /\ UNCHANGED << inputs, report_vars, pipeline_vars, loaded_metrics >>

\* python3 scripts/06_team_specific_model.py
RunTeamSpecificModel ==
    /\ variant = "team_specific"
    /\ script_pc = "idle"
    /\ LET r == TeamSpecificRun(files)
       IN  /\ ScriptEnds(r.err)
           /\ files' = r.files
           /\ io_log' = io_log \o r.log
           /\ predictions' = r.predictions
    /\ UNCHANGED << inputs, report_vars, pipeline_vars, targets, features_list, script_model,
                    pbp_seasons, loaded_metrics >>

\* fetch_nflfastr_data.fetch_pbp_data(seasons)
FetchPbpData ==
    /\ variant = "fetch_pbp"
    /\ script_pc = "idle"
    /\ \E seasons \in SeasonArgs, first \in { "ok", "raises" }, second \in { "ok", "raises" } :
          LET r == fetch_pbp_data(seasons, first, second)
          IN  /\ ScriptEnds(r.err)
              /\ io_log' = io_log \o r.log
              /\ pbp_seasons' = r.loaded
    /\ UNCHANGED << inputs, report_vars, pipeline_vars, targets, files, features_list, predictions,
                    script_model, loaded_metrics >>

\* 04_analysis_utils.save_model(model, metrics, path)
SaveModel ==
    /\ variant = "persist"
    /\ script_pc = "idle"
    /\ files' = [ files EXCEPT ![MODEL_PKL] = Stored(save_model(model, metrics)) ]
    /\ io_log' = Append(io_log, Event("04_analysis_utils", "write", MODEL_PKL))
    /\ script_pc' = "saved"
    /\ UNCHANGED << inputs, report_vars, pipeline_vars, targets, script_err, features_list, predictions,
                    script_model, pbp_seasons, loaded_metrics >>

\* 04_analysis_utils.load_model(path)
LoadModel ==
    /\ variant = "persist"
    /\ script_pc = "saved"
    /\ LET r == load_model(files[MODEL_PKL].data)
       IN  /\ script_model' = r.model
           /\ loaded_metrics' = r.metrics
    /\ io_log' = Append(io_log, Event("04_analysis_utils", "read", MODEL_PKL))
    /\ script_pc' = "done"
    /\ UNCHANGED << inputs, report_vars, pipeline_vars, targets, files, script_err, features_list,
                    predictions, pbp_seasons >>

\* python3 scripts/05_weekly_scheduler.py, up to step 1: at import
\* logging.basicConfig builds FileHandler('logs/weekly_update.log'), which
\* opens the file; automated_update then makes the logs directory
SchedulerStart ==
    /\ variant = "scheduler"
    /\ script_pc = "idle"
    /\ IF files[LOGS_DIR].exists
       THEN /\ files' = [ files EXCEPT ![WEEKLY_LOG] = Stored(<< >>) ]
            /\ io_log' = io_log \o
                  << Event("05_weekly_scheduler", "open", WEEKLY_LOG),
                     Event("05_weekly_scheduler", "mkdir", LOGS_DIR) >>
            /\ script_pc' = "step1"
            /\ script_err' = "none"
       ELSE /\ files' = files
            /\ io_log' = Append(io_log, Event("05_weekly_scheduler", "open", WEEKLY_LOG))
            /\ script_pc' = "crashed"
            /\ script_err' = "FileNotFoundError"
    /\ UNCHANGED << inputs, report_vars, pipeline_vars, targets, features_list, predictions,
                    script_model, pbp_seasons, loaded_metrics >>

\* automated_update, step 1: run_script('scripts/fetch_via_odds_api.py').
\* The child is fetch_via_odds_api.main, unless it is cut short from outside
\* (the timeout, python3 missing, an import that fails).
SchedulerFetchLines ==
    /\ variant = "scheduler"
    /\ script_pc = "step1"
    /\ \E api_key \in { "None", "key" },
          answer \in { Raises, Returns(<< >>), Returns(FetchedLines.games) },
          child_end \in ChildEnds :
          LET r     == OddsApiMain(api_key, answer)
              ran   == child_end = "exit 0"
          IN  /\ files' = IF ran /\ r.wrote
                          THEN [ files EXCEPT ![VEGAS_LINES_FILE] = Stored(r.output) ]
                          ELSE files
              /\ io_log' = io_log \o
                    RunScriptLog(1, IF ran THEN r.log ELSE << >>, child_end)
              /\ script_pc' = AfterStep(1, run_script(child_end))
    /\ UNCHANGED << inputs, report_vars, pipeline_vars, targets, script_err, features_list,
                    predictions, script_model, pbp_seasons, loaded_metrics >>

\* automated_update, step 2: run_script('scripts/02_enhanced_analysis.py')
SchedulerEnhancedAnalysis ==
    /\ variant = "scheduler"
    /\ script_pc = "step2"
    /\ \E child_end \in ChildEnds :
       LET ok == run_script(child_end)
       IN
          /\ files' = IF ok THEN [ files EXCEPT ![ENHANCED_ANALYSIS] = Stored(EnhancedData) ]
                      ELSE files
          /\ io_log' = io_log \o
                RunScriptLog(2, IF ok
                                THEN << Event("02_enhanced_analysis", "write",
                                              ENHANCED_ANALYSIS) >>
                                ELSE << >>, child_end)
          /\ script_pc' = AfterStep(2, ok)
    /\ UNCHANGED << inputs, report_vars, pipeline_vars, targets, script_err, features_list, predictions,
                    script_model, pbp_seasons, loaded_metrics >>

\* automated_update, step 3: run_script('scripts/03_injury_report.py')
SchedulerInjuryReport ==
    /\ variant = "scheduler"
    /\ script_pc = "step3"
    /\ \E child_end \in ChildEnds :
       LET ok == run_script(child_end)
       IN
          /\ files' = IF ok THEN [ files EXCEPT ![INJURY_REPORT] =
                                      Stored(InjuryFile(<< Injury("BUF", "RB") >>)) ]
                      ELSE files
          /\ io_log' = io_log \o
                RunScriptLog(3, IF ok
                                THEN << Event("03_injury_report", "write", INJURY_REPORT) >>
                                ELSE << >>, child_end)
          /\ script_pc' = AfterStep(3, ok)
    /\ UNCHANGED << inputs, report_vars, pipeline_vars, targets, script_err, features_list, predictions,
                    script_model, pbp_seasons, loaded_metrics >>

\* automated_update, step 4: run_script('scripts/04_enhanced_model.py'), and
\* on success the update log written and True returned; the child runs to
\* its end unless the timeout stops it or python3 cannot be started
SchedulerRetrain ==
    /\ variant = "scheduler"
    /\ script_pc = "step4"
    /\ \E coef \in EnhancedCoefOutcomes, stopped \in { "no", "timeout", "OSError" } :
          LET r         == EnhancedModelRun(files, coef)
              ran       == stopped = "no"
              child_end == IF ~ran THEN stopped
                           ELSE IF r.err = "none" THEN "exit 0" ELSE "exit 1"
              ok        == run_script(child_end)
          IN  /\ files' = IF ok THEN [ r.files EXCEPT ![LAST_UPDATE] =
                                         Stored([ status |-> "success",
                                                  scripts_run |-> SchedulerScripts ]) ]
                          ELSE IF ran THEN r.files ELSE files
              /\ io_log' = io_log
                    \o RunScriptLog(4, IF ran THEN r.log ELSE << >>, child_end)
                    \o (IF ok THEN << Event("05_weekly_scheduler", "write", LAST_UPDATE) >>
                        ELSE << >>)
              /\ features_list' = IF ran THEN r.features_list ELSE features_list
              /\ targets' = IF ran THEN r.targets ELSE targets
              /\ predictions' = IF ran THEN r.predictions ELSE predictions
              /\ script_model' = IF ran THEN r.model ELSE script_model
              /\ script_pc' = AfterStep(4, ok)
    /\ UNCHANGED << inputs, report_vars, pipeline_vars, script_err, pbp_seasons,
                    loaded_metrics >>

\* python3 scripts/fetch_vegas_lines.py
RunFetchVegasLines ==
    /\ variant = "fetch_vegas_lines"
    /\ script_pc = "idle"
    /\ LET r == FetchVegasLinesMain(web.answers)
       IN  /\ fetched' = r.fetch.result
           /\ io_log' = io_log
                 \o SourceCalls("fetch_vegas_lines", FetchSources, r.fetch.called)
                 \o (IF r.wrote
                     THEN << Event("fetch_vegas_lines", "write", VEGAS_LINES_FILE) >>
                     ELSE << >>)
           /\ files' = IF r.wrote
                       THEN [ files EXCEPT ![VEGAS_LINES_FILE] = Stored(r.output) ]
                       ELSE files
           /\ ScriptEnds(r.err)
    /\ UNCHANGED << inputs, web, summary, signals, pipeline_vars, targets, features_list,
                    predictions, script_model, pbp_seasons, loaded_metrics >>

\* fetch_vegas_lines_scraper.scrape_all_sources()
ScraperScrapeAllSources ==
    /\ variant = "fetch_vegas_lines_scraper"
    /\ script_pc = "idle"
    /\ LET r == scraper_scrape_all_sources(web.answers)
       IN  /\ fetched' = r.result
           /\ io_log' = io_log
                 \o SourceCalls("fetch_vegas_lines_scraper", ScraperSources, r.called)
    /\ ScriptEnds("none")
    /\ UNCHANGED << inputs, web, summary, signals, pipeline_vars, targets, files,
                    features_list, predictions, script_model, pbp_seasons,
                    loaded_metrics >>

\* fetch_vegas_lines_advanced.scrape_all_sources()
AdvancedScrapeAllSources ==
    /\ variant = "fetch_vegas_lines_advanced"
    /\ script_pc = "idle"
    /\ LET r == advanced_scrape_all_sources(web.schedule, web.answers)
       IN  /\ fetched' = r.result
           /\ io_log' = io_log
                 \o SourceCalls("fetch_vegas_lines_advanced", AdvancedSources, r.called)
    /\ ScriptEnds("none")
    /\ UNCHANGED << inputs, web, summary, signals, pipeline_vars, targets, files,
                    features_list, predictions, script_model, pbp_seasons,
                    loaded_metrics >>

\* the prediction step of 03_project_playoffs.py, nfl_betting_complete.py
\* and nfl_betting_notebook.py, each on the same prediction and total
ComputeSignals ==
    /\ variant = "signal_variants"
    /\ script_pc = "idle"
    /\ \E model_total \in SignalPredictions, vegas_total \in SignalTotals :
          signals' = SignalVariants(model_total, vegas_total)
    /\ ScriptEnds("none")
    /\ UNCHANGED << inputs, web, fetched, summary, pipeline_vars, targets, files, io_log,
                    features_list, predictions, script_model, pbp_seasons,
                    loaded_metrics >>

Next ==
    \/ ComputeSignals
    \/ SchedulerStart
    \/ RunFetchVegasLines
    \/ ScraperScrapeAllSources
    \/ AdvancedScrapeAllSources
    \/ SchedulerFetchLines
    \/ SchedulerEnhancedAnalysis
    \/ SchedulerInjuryReport
    \/ SchedulerRetrain
    \/ SaveModel
    \/ LoadModel
    \/ FetchPbpData
    \/ RunEnhancedModel
    \/ RunTeamSpecificModel
    \/ RunHistoricalModel
    \/ UtilsBuild
    \/ UtilsFit
    \/ UtilsProject
    \/ NflNoLines
    \/ NflBuild
    \/ NflTrain
    \/ NflProject

Spec == Init /\ [][Next]_vars


-----------------------------------------------------------------------------
(* Properties.                                                             *)

\* the projection stage was entered (its frame of feature rows was built)
ProjectionRan == pc = "projected" \/ (pc = "failed" /\ model.fitted)

\* the edge project_games computed for its i-th record, before rounding
NflEdge(i) ==
    Sub(PredictRow(model, SelectColumns(<< proj_df[i] >>, NflFeatureCols)[1]),
        projections[i].vegasTotal)

ExactDifference(d, a, b) ==
    IF a = NaN \/ b = NaN THEN d = NaN ELSE d = a - b

DerivedConsistent(row) ==
    /\ ExactDifference(row.off_epa_diff, row.home_off_epa, row.away_off_epa)
    /\ ExactDifference(row.def_epa_diff, row.home_def_epa, row.away_def_epa)
    /\ ExactDifference(row.home_matchup_edge, row.home_off_epa, row.away_def_epa)
    /\ ExactDifference(row.away_matchup_edge, row.away_off_epa, row.home_def_epa)

\* C4: in every feature row built for training or for projection the four
\* derived features are exactly the differences of the operands stored in
\* the same row.
C4_DifferentialConsistency ==
    /\ \A i \in 1..Len(train_df) : DerivedConsistent(train_df[i])
    /\ \A i \in 1..Len(proj_df) : DerivedConsistent(proj_df[i])

\* C4 witness: a run that built training rows and projection rows whose
\* derived features are numbers, not all zero
C4_Witness_RowsBuilt ==
    /\ pc = "projected"
    /\ Len(train_df) > 0
    /\ \E i \in 1..Len(proj_df) :
          /\ proj_df[i].away_matchup_edge \notin { NaN, 0 }
          /\ proj_df[i].home_def_epa # proj_df[i].away_def_epa
          /\ proj_df[i].off_epa_diff \notin { NaN, 0 }


\* C2: in every projection record the reported edge is the reported model
\* total minus the reported market total of the same record.
C2_EdgeIsModelMinusMarket ==
    /\ variant = "utils" =>
         \A i \in 1..Len(projections) :
            ExactDifference(projections[i].difference,
                            projections[i].model_total, projections[i].vegas_total)
    /\ variant = "nflfastr" =>
         \A i \in 1..Len(projections) :
            projections[i].edge = projections[i].modelTotal - projections[i].vegasTotal

\* the team ids of the matchups projected, as the tables spell them
ProjectedMatchups ==
    IF variant = "utils" THEN upcoming
    ELSE LET mus == load_vegas_lines(vegas_lines)
         IN  [ i \in 1..Len(mus) |->
                 [ home_team |-> mus[i].home_team, away_team |-> mus[i].away_team ] ]

\* the completed games that reach build_training_data
TrainingGames ==
    IF variant = "utils" THEN games ELSE get_game_results(games)

\* the features the fitted model uses
ModelFeatures == RangeOf(model.feature_names_in)

RowsOf(df, h, a) ==
    { i \in 1..Len(df) : df[i].home_team = h /\ df[i].away_team = a }

SameFeatures(r1, r2) == \A c \in ModelFeatures : r1[c] = r2[c]

\* C3: for a pair of teams that is both a training game and a projected
\* matchup, training and projection keep or reject the row alike, and every
\* feature the model uses has the same value in both rows.  (Stated for
\* tables with one record per team id, so that "the home record" and "the
\* away record" are defined.)
C3_TrainProjectSymmetry ==
    (ProjectionRan /\ ~HasDuplicateTeam(team_epa) /\ ~HasDuplicateTeam(team_scoring)) =>
      \A g \in RangeOf(TrainingGames), mu \in RangeOf(ProjectedMatchups) :
         (g.home_team = mu.home_team /\ g.away_team = mu.away_team) =>
            LET tr == RowsOf(train_df, g.home_team, g.away_team)
                pr == RowsOf(proj_df, g.home_team, g.away_team)
            IN  /\ (tr = {}) <=> (pr = {})
                /\ \A i \in tr : \E j \in pr : SameFeatures(train_df[i], proj_df[j])
                /\ \A j \in pr : \E i \in tr : SameFeatures(train_df[i], proj_df[j])

\* the total the model gives a row when every weight meets the value of the
\* feature it was fitted on
TotalInTrainedOrder(row) ==
    PredictRow(model, [ k \in 1..Len(model.feature_names_in) |->
                          row[model.feature_names_in[k]] ])

\* C5: whatever feature list the caller passes or omits at projection time,
\* the model total of every record is the intercept plus each weight times
\* the value of the feature that weight was fitted on.
C5_WeightsMeetTrainedFeatures ==
    (variant = "utils" /\ pc = "projected") =>
      \A i \in 1..Len(projections) :
         projections[i].model_total = TotalInTrainedOrder(proj_df[i])

\* the keys of a feature vector handed to the projector
FeatureVectorKeys(row) == (DOMAIN row) \ { "home_team", "away_team", "vegas_total" }

\* C6: a projection whose feature vector has a key set other than the
\* model's trained feature-name set fails (with SchemaMismatch), also when
\* the vector only carries an extra key.  Stated without the kind of the
\* failure: such a projection does not return.
C6_SchemaMismatchRejected ==
    (ProjectionRan
       /\ \E i \in 1..Len(proj_df) : FeatureVectorKeys(proj_df[i]) # ModelFeatures)
    => pc = "failed"

TeamIds(table) == { table[i].team : i \in 1..Len(table) }

KnownTeam(t) == t \in TeamIds(team_epa) /\ t \in TeamIds(team_scoring)

\* C7: a matchup whose home or away team has no record in the team tables
\* makes the projection fail (with UnknownTeam, propagated to the caller).
\* Stated without the kind of the failure: such a run does not return.
C7_UnknownTeamPropagated ==
    ProjectionRan =>
      \A mu \in RangeOf(ProjectedMatchups) :
         (~KnownTeam(mu.home_team) \/ ~KnownTeam(mu.away_team)) => pc = "failed"

\* the columns the fit is asked to use
FitFeatureKeys ==
    IF variant = "utils" THEN RangeOf(ColumnsOrDefault(fit_columns))
    ELSE RangeOf(NflFeatureCols)

\* C8: a fit on no more training rows than distinct feature keys fails
\* (with InsufficientData) and returns no model.  Stated without the kind
\* of the failure: such a fit returns no model.
C8_InsufficientDataRejected ==
    (pc \in { "fitted", "projected", "failed" }
       /\ Len(train_df) <= Cardinality(FitFeatureKeys))
    => ~model.fitted

\* C9: a team table holding two records with one team id is rejected with
\* DuplicateTeam; no matchup is joined to more than one feature row.
C9_DuplicateTeamRejected ==
    (pc # "start" /\ pc # "returned"
       /\ (HasDuplicateTeam(team_epa) \/ HasDuplicateTeam(team_scoring)))
    => /\ pc = "failed"
       /\ err = "DuplicateTeam"
       /\ train_df = << >>
       /\ proj_df = << >>

\* the record of a team in the EPA table
EpaRecordOf(t) == Lookup(team_epa, t).rec

\* C10: when both teams of a training game have a record and an optional
\* field of a record is missing, the row is kept and carries 0 for that
\* field; no missing value is left in a feature row.
C10_MissingFieldDefaultsToZero ==
    (pc # "start" /\ pc # "returned") =>
      \A g \in RangeOf(TrainingGames) :
         (KnownTeam(g.home_team) /\ KnownTeam(g.away_team)) =>
            LET tr == RowsOf(train_df, g.home_team, g.away_team)
            IN  /\ tr # {}
                /\ \A i \in tr :
                      /\ ~IsNaN(train_df[i].home_off_pass_epa)
                      /\ ~IsNaN(train_df[i].away_off_pass_epa)
                      /\ IsNaN(EpaRecordOf(g.home_team).off_pass_epa)
                           => train_df[i].home_off_pass_epa = 0
                      /\ IsNaN(EpaRecordOf(g.away_team).off_pass_epa)
                           => train_df[i].away_off_pass_epa = 0

\* C11: every projection record (it carries an edge and a signal) belongs to
\* a matchup with a numeric market total; a matchup without a line, or with
\* a null total in the lines file, yields no record.
C11_MarketTotalRequired ==
    pc = "projected" =>
      \A i \in 1..Len(projections) :
         IF variant = "utils" THEN ~IsNaN(projections[i].vegas_total)
         ELSE ~IsNaN(projections[i].vegasTotal)



\* C12: every target handed to a fit is the observed total of a completed
\* game of the run, home_score + away_score, a non-negative whole number of
\* points; it is never the total the market quotes.
C12_TargetIsObservedTotal ==
    \A i \in 1..Len(targets) :
       /\ \E g \in RangeOf(games) : targets[i] = 1000 * (g.home_score + g.away_score)
       /\ targets[i] >= 0
       /\ targets[i] % 1000 = 0

\* the fitted model of the specification's scenario: intercept 45, weight 50
\* on home_matchup_edge, every other weight 0
ScenarioModel ==
    /\ model.fitted
    /\ model.intercept = 45000
    /\ \A k \in 1..Len(model.coef) :
          model.coef[k] = IF model.feature_names_in[k] = "home_matchup_edge" THEN 50 ELSE 0

\* the feature row of the specification's scenario: home offence 0.10 and
\* defence -0.05, away offence -0.02 and defence 0.03, market total 45.5
ScenarioRow(row) ==
    /\ row.home_off_epa = 100
    /\ row.home_def_epa = -50
    /\ row.away_off_epa = -20
    /\ row.away_def_epa = 30
    /\ row.vegas_total = 45500

\* C13: the model total of every prediction is the intercept plus the sum of
\* weight times feature value of the fitted model, nothing else applied to
\* it; in the scenario (default threshold) the edges are 0.07 and 0.03, the
\* model total 48.5, the edge 3.0 and the signal OVER.
C13_ModelTotalIsLinear ==
    /\ (variant = "historical" /\ script_pc = "done") =>
          \A i \in 1..Len(predictions) :
             predictions[i].model_total = PredictRow(script_model, features_list[i])
    /\ (variant = "utils" /\ pc = "projected" /\ ScenarioModel /\ edge_threshold = 2000) =>
          \A i \in 1..Len(projections) :
             ScenarioRow(proj_df[i]) =>
                /\ proj_df[i].home_matchup_edge = 70
                /\ proj_df[i].away_matchup_edge = 30
                /\ projections[i].model_total = 48500
                /\ projections[i].difference = 3000
                /\ projections[i].signal = "OVER"

\* what project_games returns for matchup i of the lines file projected alone
AloneNfl(i) ==
    project_games(<< load_vegas_lines(vegas_lines)[i] >>, model, team_epa, team_scoring).out

\* what project_week returns for upcoming game i projected alone
AloneUtils(i) ==
    LET rows == UtilsProjectFeatures(<< upcoming[i] >>, vegas_lines, team_epa, team_scoring)
    IN  [ k \in 1..Len(rows) |->
            UtilsProjectionRecord(model, rows[k], ColumnsOrDefault(proj_columns),
                                  edge_threshold) ]

\* what 04_enhanced_model predicts for game i when nfl_analysis.json holds
\* that game alone
AloneEnhanced(i) ==
    EnhancedModelRun([ files EXCEPT ![OUTPUT_FILE].data.games = << @[i] >> ],
                     CHOOSE coef \in EnhancedCoefOutcomes : TRUE).predictions

\* C14: the records a run returns are, matchup by matchup and in order, the
\* records each matchup yields when it is projected alone: no matchup's
\* record depends on which other matchups are projected with it.
C14_MatchupsIndependent ==
    /\ (variant = "nflfastr" /\ ProjectionRan) =>
          projections = FlattenSeq([ i \in 1..Len(vegas_lines) |-> AloneNfl(i) ])
    /\ (variant = "utils" /\ pc = "projected") =>
          projections = FlattenSeq([ i \in 1..Len(upcoming) |-> AloneUtils(i) ])
    /\ (variant = "enhanced" /\ script_pc = "done") =>
          predictions =
             FlattenSeq([ i \in 1..Len(files[OUTPUT_FILE].data.games) |-> AloneEnhanced(i) ])

\* C15: no script reads a file another script wrote, no two scripts write
\* the same file, and no script writes a file it has read.
C15_NoSharedFiles ==
    \A i, j \in 1..Len(io_log) :
       (i < j /\ io_log[i].target = io_log[j].target) =>
          /\ (io_log[i].op = "write" /\ io_log[j].op = "read")
                => io_log[i].script = io_log[j].script
          /\ (io_log[i].op = "write" /\ io_log[j].op = "write")
                => io_log[i].script = io_log[j].script
          /\ (io_log[i].op = "read" /\ io_log[j].op = "write")
                => io_log[i].script # io_log[j].script

\* C16: within one run no step is attempted twice: no script makes the same
\* outside call a second time (with the same or with a reduced input) and
\* no script is started a second time.
C16_NeverRetries ==
    \A i, j \in 1..Len(io_log) :
       (i < j /\ io_log[i].op \in { "call", "run" } /\ io_log[i].op = io_log[j].op
             /\ io_log[i].script = io_log[j].script)
          => io_log[i].target # io_log[j].target

\* the artefact holds the weight of every feature, the intercept and the
\* ordered feature names of the estimator m
HoldsModel(artefact, m) ==
    /\ { "coef", "intercept", "feature_names_in" } \subseteq DOMAIN artefact
    /\ artefact.coef = m.coef
    /\ artefact.intercept = m.intercept
    /\ artefact.feature_names_in = m.feature_names_in

\* C17: what is persisted after a fit gives the fitted model back: load_model
\* returns the model and the metrics dict save_model was given, and the
\* artefact 04_enhanced_model writes holds the weights, the intercept and the
\* ordered feature names of the model it fitted.
C17_ArtefactRoundTrips ==
    /\ (variant = "persist" /\ script_pc = "done") =>
          /\ script_model = model
          /\ loaded_metrics = metrics
    /\ (variant = "enhanced" /\ script_pc = "done") =>
          HoldsModel(files[ENHANCED_MODEL].data, script_model)

\* the signal of project_week a script's recommendation stands for
SignalOf(recommendation) ==
    CASE recommendation = "over"  -> "OVER"
      [] recommendation = "under" -> "UNDER"
      [] recommendation = "hold"  -> "NO EDGE"

\* C18: the recommendation of every prediction a script emits is the signal
\* project_week gives the same edge under the default threshold of 2.0 points.
C18_DefaultThresholdEverywhere ==
    \A i \in 1..Len(predictions) :
       SignalOf(predictions[i].recommendation)
          = get_signal(predictions[i].model_total - predictions[i].vegas_total, 2000)

\* what the scheduler itself did: the scripts it started and how each ended
SchedulerLog ==
    SelectSeq(io_log, LAMBDA e : e.script = "05_weekly_scheduler"
                                 /\ e.op \in { "run", "ok", "failed" })

\* the scripts whose failure must end the cycle
MandatoryScripts ==
    { "scripts/fetch_via_odds_api.py", "scripts/02_enhanced_analysis.py",
      "scripts/04_enhanced_model.py" }

Ended(script, how) ==
    \E i \in 1..Len(SchedulerLog) :
       SchedulerLog[i].op = how /\ SchedulerLog[i].target = script

\* C19: automated_update starts the four scripts in the fixed order, each
\* after the one before it has ended; a failure of the lines fetch, of the
\* enhanced analysis or of the retraining ends the cycle at once with False;
\* a failure of the injury report does not; True is returned exactly when
\* the three mandatory scripts succeeded.
C19_UpdateOrder ==
    variant = "scheduler" =>
      LET log  == SchedulerLog
          runs == SelectSeq(log, LAMBDA e : e.op = "run")
      IN  /\ [ k \in 1..Len(runs) |-> runs[k].target ]
                = SubSeq(<< "scripts/fetch_via_odds_api.py",
                            "scripts/02_enhanced_analysis.py",
                            "scripts/03_injury_report.py",
                            "scripts/04_enhanced_model.py" >>, 1, Len(runs))
          /\ \A i \in 1..Len(log) :
                IF i % 2 = 1 THEN log[i].op = "run"
                ELSE log[i].op \in { "ok", "failed" } /\ log[i].target = log[i - 1].target
          /\ \A i \in 1..Len(log) :
                (log[i].op = "failed" /\ log[i].target \in MandatoryScripts)
                   => (i = Len(log) /\ script_pc = "failed")
          /\ \A i \in 1..Len(log) :
                (log[i].op = "failed" /\ log[i].target = "scripts/03_injury_report.py")
                   => (script_pc = "failed" => i < Len(log))
          /\ script_pc = "done" <=> \A m \in MandatoryScripts : Ended(m, "ok")
          /\ script_pc = "failed" <=> \E m \in MandatoryScripts : Ended(m, "failed")

\* a cycle in which the injury report failed and that nevertheless went on
\* to retrain and returned True
C19_Witness_InjuryFailureTolerated ==
    /\ variant = "scheduler"
    /\ script_pc = "done"
    /\ Ended("scripts/03_injury_report.py", "failed")
    /\ Ended("scripts/04_enhanced_model.py", "ok")

\* C20: in a cycle that reports success, every file the retraining script
\* read was written by an earlier step of the same cycle.
C20_RetrainsOnRefreshedFiles ==
    (variant = "scheduler" /\ script_pc = "done") =>
       \A j \in 1..Len(io_log) :
          (io_log[j].script = "04_enhanced_model" /\ io_log[j].op = "read") =>
             \E i \in 1..(j - 1) :
                io_log[i].op = "write" /\ io_log[i].target = io_log[j].target

-----------------------------------------------------------------------------
\* the sources that succeeded with non-empty data, by position
Succeeded ==
    { i \in 1..Len(web.answers) :
         \/ web.answers[i].kind = "scalar"
         \/ web.answers[i].kind = "value" /\ DOMAIN web.answers[i].data # { } }

FirstSucceeded == CHOOSE i \in Succeeded : \A j \in Succeeded : i <= j

\* the sources called, in the order of the calls
SourcesCalled == [ k \in 1..Len(io_log) |-> io_log[k].target ]

\* the odds one source alone gives to the games of the schedule
OddsOfSource(i) == merge_games_with_odds(web.schedule, web.answers[i].data)

\* C21: every multi-source fetch is first-success-wins: the sources are
\* called in list order up to and including the first that succeeds with
\* non-empty data, what is returned is that source's data and nothing of
\* another source, and a source that raises only moves the fetch on.
C21_FirstSuccessWins ==
    /\ (variant = "fetch_vegas_lines_scraper" /\ script_pc = "done") =>
          IF Succeeded = { }
          THEN /\ SourcesCalled = ScraperSources
               /\ fetched = ReturnsNone
          ELSE /\ SourcesCalled = SubSeq(ScraperSources, 1, FirstSucceeded)
               /\ fetched = web.answers[FirstSucceeded]
    /\ (variant = "fetch_vegas_lines" /\ script_pc = "done") =>
          LET calls == SelectSeq(io_log, LAMBDA e : e.op = "call")
          IN  IF Succeeded = { }
              THEN /\ [ k \in 1..Len(calls) |-> calls[k].target ] = FetchSources
                   /\ fetched = ReturnsNone
              ELSE /\ [ k \in 1..Len(calls) |-> calls[k].target ]
                         = SubSeq(FetchSources, 1, FirstSucceeded)
                   /\ fetched = web.answers[FirstSucceeded]
    /\ (variant = "fetch_vegas_lines_advanced" /\ script_pc = "done"
           /\ web.schedule # << >> /\ Succeeded # { }) =>
          /\ SourcesCalled = SubSeq(AdvancedSources, 1, FirstSucceeded)
          /\ fetched = Returns(OddsOfSource(FirstSucceeded))

\* the lines fetch of the cycle is over
LinesStepOver ==
    \/ Ended("scripts/fetch_via_odds_api.py", "ok")
    \/ Ended("scripts/fetch_via_odds_api.py", "failed")

\* the lines fetch of the cycle obtained games: it wrote vegas_lines.json
LinesObtained ==
    \E i \in 1..Len(io_log) :
       io_log[i] = Event("fetch_via_odds_api", "write", VEGAS_LINES_FILE)

\* C22: when the Vegas-lines step of automated_update obtains no games (no
\* API key, a failed call, no events), the cycle aborts with False and the
\* analysis and retraining steps are never started.
C22_NoLinesAborts ==
    (variant = "scheduler" /\ LinesStepOver /\ ~LinesObtained) =>
       /\ script_pc = "failed"
       /\ \A i \in 1..Len(io_log) :
             io_log[i].op = "run" => io_log[i].target = "scripts/fetch_via_odds_api.py"

\* C23: run_script returns True exactly when the child ended with exit code
\* 0; a non-zero exit code, the timeout and any other exception give False,
\* and no exception of run_script ends the scheduler.
C23_RunScriptResult ==
    variant = "scheduler" =>
       /\ \A i \in 1..Len(io_log) :
             io_log[i].op = "ended" =>
                /\ i < Len(io_log)
                /\ io_log[i + 1].script = "05_weekly_scheduler"
                /\ io_log[i + 1].op = (IF io_log[i].target = "exit 0" THEN "ok" ELSE "failed")
       /\ script_err # "none" => \A i \in 1..Len(io_log) : io_log[i].op # "run"

\* a cycle in which a child ran into the timeout, run_script returned False
\* for it, the scheduler went on, and the next child could not be started
C23_Witness_TimeoutAndOSError ==
    /\ variant = "scheduler"
    /\ \E i \in 1..Len(io_log) : io_log[i] = Event("subprocess", "ended", "OSError")
    /\ \E i \in 1..(Len(io_log) - 2) :
          /\ io_log[i] = Event("subprocess", "ended", "timeout")
          /\ io_log[i + 1] = Event("05_weekly_scheduler", "failed",
                                   "scripts/03_injury_report.py")
          /\ io_log[i + 2].op = "run"

\* C24: logs/last_update.json exists only after a cycle that returned True,
\* and every script its scripts_run names completed successfully in that
\* cycle.
C24_UpdateLogTruthful ==
    (variant = "scheduler" /\ files[LAST_UPDATE].exists) =>
       /\ script_pc = "done"
       /\ \A k \in 1..Len(files[LAST_UPDATE].data.scripts_run) :
             Ended(files[LAST_UPDATE].data.scripts_run[k], "ok")

\* a file of the logs directory is opened or written at position j
OpensLogFile(j) ==
    /\ io_log[j].op \in { "open", "write" }
    /\ io_log[j].target \in { WEEKLY_LOG, LAST_UPDATE }

\* C25: the scheduler starts where logs/ does not exist: the directory is
\* made before any file inside it is opened, and no run ends on the missing
\* directory.
C25_StartsWithoutLogsDir ==
    variant = "scheduler" =>
       /\ script_pc # "crashed"
       /\ \A j \in 1..Len(io_log) :
             OpensLogFile(j) =>
                \E i \in 1..(j - 1) :
                   io_log[i] = Event("05_weekly_scheduler", "mkdir", LOGS_DIR)

\* the file fetch_vegas_lines.main left
LinesWritten == files[VEGAS_LINES_FILE].data

\* some event of what the sources handed to main can be parsed
SomeEventParses ==
    /\ fetched.kind = "value"
    /\ \E k \in 1..Len(fetched.data) : Len(fetched.data[k].competitions[1].competitors) >= 2

\* C26: fetch_vegas_lines.main always ends by writing vegas_lines.json with
\* at least one game and gamesCount equal to the number of games written;
\* when the sources gave nothing, or nothing that parses, the games written
\* are the hardcoded ones.
C26_AlwaysWritesLines ==
    (variant = "fetch_vegas_lines" /\ script_pc # "idle") =>
       /\ script_pc = "done"
       /\ files[VEGAS_LINES_FILE].exists
       /\ Len(LinesWritten.games) >= 1
       /\ LinesWritten.gamesCount = Len(LinesWritten.games)
       /\ ~SomeEventParses =>
             [ k \in 1..Len(LinesWritten.games) |-> LinesWritten.games[k].id ]
                = << "1", "2", "3", "4" >>

\* the recommendation that agrees with a reported edge
AgreesWithEdge(p) ==
    /\ p.recommendation = "over"  <=> Gt(p.edge, 2000)
    /\ p.recommendation = "under" <=> Lt(p.edge, -2000)
    /\ p.recommendation = "hold"  <=> ~Gt(p.edge, 2000) /\ ~Lt(p.edge, -2000)

\* C27: in every projection record project_games returns, the recommendation
\* agrees with the edge the record reports: over exactly when that edge is
\* above 2, under exactly when it is below -2, hold otherwise.
C27_RecommendationMatchesReportedEdge ==
    (variant = "nflfastr" /\ pc = "projected") =>
       \A i \in 1..Len(projections) : AgreesWithEdge(projections[i])

\* C28: the notebook variant and the two script variants of the
\* divisional-round projection give the same signal for the same unrounded
\* model total and Vegas total.
C28_VariantsAgree ==
    (variant = "signal_variants" /\ script_pc = "done") =>
       /\ signals.notebook = signals.playoffs
       /\ signals.notebook = signals.complete

\* the table holds a record of the team
HasRecord(table, t) == \E k \in 1..Len(table) : table[k].team = t

\* the matchups of the lines file with all four records on hand, in order
MatchupsOnHand ==
    SelectSeq(load_vegas_lines(vegas_lines),
              LAMBDA mu : /\ HasRecord(team_epa, mu.home_team)
                          /\ HasRecord(team_epa, mu.away_team)
                          /\ HasRecord(team_scoring, mu.home_team)
                          /\ HasRecord(team_scoring, mu.away_team))

\* C29: project_games returns one projection for each input matchup whose
\* home and away EPA and scoring records all exist, in input order, and none
\* for the others; calculate_summary_stats of the list has gamesAnalyzed
\* equal to its length and to overPicks + underPicks + holdPicks.
C29_OneProjectionPerKnownMatchup ==
    (variant = "nflfastr" /\ pc = "projected") =>
       /\ Len(projections) = Len(MatchupsOnHand)
       /\ \A i \in 1..Len(projections) :
             /\ projections[i].homeTeam = TeamDisplayName(MatchupsOnHand[i].home_team)
             /\ projections[i].awayTeam = TeamDisplayName(MatchupsOnHand[i].away_team)
             /\ projections[i].vegasTotal = MatchupsOnHand[i].vegas_total
       /\ summary.gamesAnalyzed = Len(projections)
       /\ summary.gamesAnalyzed
             = summary.overPicks + summary.underPicks + summary.holdPicks

\* a run in which one of two matchups is left out for a missing record and
\* the other is projected and counted as a hold
C29_Witness_OneSkippedOneHeld ==
    /\ variant = "nflfastr"
    /\ pc = "projected"
    /\ Len(vegas_lines) = 2
    /\ Len(projections) = 1
    /\ summary.gamesAnalyzed = 1
    /\ summary.holdPicks = 1

\* the games of the lines file, as the file spells them, whose teams have
\* all four records, in order
FileGamesOnHand ==
    SelectSeq(vegas_lines,
              LAMBDA g : /\ HasRecord(team_epa, normalize_team_abbr(g.home_team))
                         /\ HasRecord(team_epa, normalize_team_abbr(g.away_team))
                         /\ HasRecord(team_scoring, normalize_team_abbr(g.home_team))
                         /\ HasRecord(team_scoring, normalize_team_abbr(g.away_team)))

\* C30: for every key t of TEAM_NAMES, denormalize_team_abbr of
\* normalize_team_abbr of t is t, so a projection carries as homeAbbr and
\* awayAbbr the standard codes the lines file gave for its game.
C30_AbbrRoundTrip ==
    /\ \A t \in DOMAIN TEAM_NAMES :
          denormalize_team_abbr(normalize_team_abbr(t)) = t
    /\ (variant = "nflfastr" /\ pc = "projected"
           /\ Len(projections) = Len(FileGamesOnHand)) =>
          \A i \in 1..Len(projections) :
             LET g == FileGamesOnHand[i]
             IN  /\ g.home_team \in DOMAIN TEAM_NAMES =>
                       projections[i].homeAbbr = g.home_team
                 /\ g.away_team \in DOMAIN TEAM_NAMES =>
                       projections[i].awayAbbr = g.away_team

\* a projection of Chargers at Rams: the file said LAR and LAC, the tables
\* say LA and SD, the projection says LAR and LAC again
C30_Witness_BothLosAngelesTeams ==
    /\ variant = "nflfastr"
    /\ pc = "projected"
    /\ vegas_lines = << Line("LAR", "LAC", 47000) >>
    /\ Len(projections) = 1
    /\ projections[1].homeAbbr = "LAR"
    /\ projections[1].awayAbbr = "LAC"
    /\ proj_df[1].home_off_epa = E_RAMS.off_epa_per_play
====
